---- MODULE Spec2Model ----
(***************************************************************************)
(* State-machine model of the S3 vault single-page application:            *)
(*   - BucketConfigService (services/api/bucketConfigService.js): the      *)
(*     in-memory configuration list, its localStorage copy and the         *)
(*     asynchronous create / update / delete / setActive operations;       *)
(*   - ConfigurationPanel.handleSaveConfig;                                *)
(*   - S3Service.listFiles over a bucket of objects;                       *)
(*   - FileBrowser: filtering, sorting, selection and deletion.            *)
(* Text is modelled as sequences of one-character strings so that trim,    *)
(* split, slice, lastIndexOf, includes, toLowerCase and the two string     *)
(* orders used by the code (localeCompare and <) are computed, not assumed.*)
(* Timestamps (createdAt, updatedAt) are left out of configuration records.*)
(***************************************************************************)
EXTENDS Integers, Sequences, FiniteSets, TLC

VARIABLES
  configs,        \* BucketConfigService.configs
  stored,         \* localStorage item 's3-vault-configs' (NoItem when absent)
  pending,        \* service calls whose setTimeout delay has not elapsed yet
  last,           \* outcome of the service call that completed last
  saveState       \* outcome of the last ConfigurationPanel.handleSaveConfig

configVars == <<configs, stored, pending, last, saveState>>

VARIABLES
  bucket,         \* the objects of the active bucket
  currentPath,    \* S3Manager.currentPath, FileBrowser's prop
  files,          \* FileBrowser.files
  filteredFiles,  \* FileBrowser.filteredFiles, the displayed list
  selectedFiles,  \* FileBrowser.selectedFiles, a set of keys
  view,           \* [searchQuery, sortBy, sortOrder]
  status,         \* [loading, error, loaded, path]: once loaded, path is the
                  \* path whose listing files holds
  listReqs,       \* listFiles calls in flight, each with its path
  handlers,       \* delete handlers that have not returned yet
  shown           \* the confirm dialog answered and the toast raised by the
                  \* step that led to this state, if any

browserVars ==
  <<bucket, currentPath, files, filteredFiles, selectedFiles, view, status,
    listReqs, handlers, shown>>

VARIABLES
  s3Client,       \* S3Service.s3Client (Null until a client is initialised)
  bucketName,     \* S3Service.bucketName
  s3Calls,        \* S3Service operations that have not returned yet
  s3Last          \* the S3Service operation that returned last, the requests
                  \* it sent and its outcome

s3Vars == <<s3Client, bucketName, s3Calls, s3Last>>

VARIABLES
  panelConfigs,        \* ConfigurationPanel.configs, the displayed list
  panelActiveConfig,   \* ConfigurationPanel.activeConfig
  managerActiveConfig, \* S3Manager.activeConfig
  panelCalls           \* panel and manager handlers waiting for the service

panelVars == <<panelConfigs, panelActiveConfig, managerActiveConfig, panelCalls>>

VARIABLES
  shareUrl,       \* ShareFileContent.shareUrl
  shareStatus,    \* ShareFileContent [file, loading, error]: its file prop
                  \* (the key) and its loading and error state
  expiresIn,      \* ShareFileContent.expiresIn, in hours
  shareReqs       \* generateShareUrl calls in flight

shareVars == <<shareUrl, shareStatus, expiresIn, shareReqs>>

VARIABLES
  uploadTasks,    \* FileUploader.uploadTasks
  isUploading,    \* FileUploader.isUploading
  uploads,        \* uploadFile calls in flight: [task, batch, live, file],
                  \* batch 0 for a retry, live while the component that
                  \* started the call is still mounted
  timers,         \* cleanup timers that have not fired yet: [batch, live]
  uploaderMounted \* FALSE while S3Manager shows its spinner

uploadVars == <<uploadTasks, isUploading, uploads, timers, uploaderMounted>>

VARIABLES
  heap,           \* the objects a message refers to: node -> [kind, items]
  postInput,      \* [data, targetWindow]: the arguments of the call
  serLast,        \* the outcome of safeSerialize(data), once called
  postLast        \* the outcome of safePostMessage(targetWindow, data)

messageVars == <<heap, postInput, serLast, postLast>>

\* everything outside BucketConfigService, and everything outside FileBrowser
outsideConfig  ==
  <<browserVars, s3Vars, panelVars, shareVars, uploadVars, messageVars>>
outsideBrowser ==
  <<configVars, s3Vars, panelVars, shareVars, uploadVars, messageVars>>

vars ==
  <<configVars, browserVars, s3Vars, panelVars, shareVars, uploadVars,
    messageVars>>

----------------------------------------------------------------------------
(* Bounds *)
MaxConfigs == 2      \* length of the configuration list
MaxId      == 2      \* largest Id handed out / asked for
MaxPending == 2      \* service calls in flight at once
MaxHandlers == 1     \* delete handlers of the FileBrowser running at once

----------------------------------------------------------------------------
(* Text helpers *)

RECURSIVE TrimStart(_)
TrimStart(s) == IF s # <<>> /\ Head(s) = " " THEN TrimStart(Tail(s)) ELSE s

RECURSIVE TrimEnd(_)
TrimEnd(s) ==
  IF s # <<>> /\ s[Len(s)] = " " THEN TrimEnd(SubSeq(s, 1, Len(s) - 1)) ELSE s

Trim(s) == TrimEnd(TrimStart(s))

----------------------------------------------------------------------------
(* BucketConfigService *)

NoItem == <<"null">>
Null   == [null |-> TRUE]

DataFields == {"name", "accessKey", "secretKey", "region", "bucketName"}

Cfg(id, bk, act) ==
  [Id |-> id, name |-> <<"n">>, accessKey |-> <<"k">>, secretKey |-> <<"s">>,
   region |-> <<"r">>, bucketName |-> bk, isActive |-> act]

\* JSON text of a configuration list: a flat token sequence "[" {...}* "]"
RECURSIVE StringifyItems(_)
StringifyItems(list) ==
  IF list = <<>> THEN <<>>
  ELSE LET c == Head(list) IN
       <<"{", c.Id, c.name, c.accessKey, c.secretKey, c.region, c.bucketName,
         IF c.isActive THEN "true" ELSE "false", "}">> \o StringifyItems(Tail(list))

Stringify(list) == <<"[">> \o StringifyItems(list) \o <<"]">>

RECURSIVE ParseItems(_)
ParseItems(toks) ==
  IF toks = <<>> THEN <<>>
  ELSE <<[Id |-> toks[2], name |-> toks[3], accessKey |-> toks[4],
          secretKey |-> toks[5], region |-> toks[6], bucketName |-> toks[7],
          isActive |-> (toks[8] = "true")]>> \o ParseItems(SubSeq(toks, 10, Len(toks)))

Parse(json) == ParseItems(SubSeq(json, 2, Len(json) - 1))

makeSerializable(c) == Parse(Stringify(<<c>>))[1]

\* constructor + loadFromLocalStorage
\* (getItem returns null when the key is absent; `if (stored)` is also false
\* for the empty string)
loadFromLocalStorage(data, item) ==
  IF item # NoItem /\ item # <<>> THEN Parse(item) ELSE data

\* saveToLocalStorage: setItem may throw (quota, disabled storage); the
\* exception is caught and only logged, leaving the previous item in place
saveToLocalStorage_NeverWrites(list, item, setItemOk) == item

saveToLocalStorage(list, item, setItemOk) ==
  IF setItemOk THEN Stringify(list) ELSE item

Ids(list) == {list[i].Id : i \in DOMAIN list}

MaxOf(S) == IF S = {} THEN 0 ELSE CHOOSE m \in S : \A x \in S : x <= m

\* Math.max(...this.configs.map(c => c.Id), 0) + 1
NextId(list) == MaxOf(Ids(list) \cup {0}) + 1

findIndex_First(list, id) == IF list = <<>> THEN 0 ELSE 1

\* this.configs.findIndex(c => c.Id === parseInt(id)); 0 stands for -1
findIndex(list, id) ==
  IF \E i \in DOMAIN list : list[i].Id = id
  THEN CHOOSE i \in DOMAIN list :
         list[i].Id = id /\ \A j \in DOMAIN list : list[j].Id = id => i <= j
  ELSE 0

\* this.configs.forEach(c => c.isActive = false)
deactivateAll(list) == [i \in DOMAIN list |-> [list[i] EXCEPT !.isActive = FALSE]]

\* { ...a, ...b }
Spread(a, b) ==
  [k \in DOMAIN a \cup DOMAIN b |-> IF k \in DOMAIN b THEN b[k] ELSE a[k]]

\* this.configs.find(c => c.isActive), returned through makeSerializable
getActive(list) ==
  IF \E i \in DOMAIN list : list[i].isActive
  THEN makeSerializable(list[CHOOSE i \in DOMAIN list :
         list[i].isActive /\ \A j \in DOMAIN list : list[j].isActive => i <= j])
  ELSE Null

createList_KeepsOthers(list, data) ==
  list \o <<Spread(Spread([Id |-> NextId(list)], data), [isActive |-> TRUE])>>

createList(list, data) ==
  deactivateAll(list) \o
    <<Spread(Spread([Id |-> NextId(list)], data), [isActive |-> TRUE])>>

updateList(list, index, data) ==
  LET base == IF "isActive" \in DOMAIN data /\ data.isActive
              THEN deactivateAll(list) ELSE list
  IN [base EXCEPT ![index] = Spread(base[index], data)]

\* this.configs.splice(index, 1)
deleteList(list, index) ==
  SubSeq(list, 1, index - 1) \o SubSeq(list, index + 1, Len(list))

setActiveList_NoDeactivate(list, index) ==
  [list EXCEPT ![index].isActive = TRUE]

setActiveList(list, index) ==
  [deactivateAll(list) EXCEPT ![index].isActive = TRUE]

----------------------------------------------------------------------------
(* Inputs of the configuration model *)


ConfigDatas ==
  {[name |-> n, accessKey |-> <<"k">>, secretKey |-> <<"s">>,
    region |-> <<"r">>, bucketName |-> b] : n \in {<<"n">>}, b \in {<<"b">>}}

UpdateDatas ==
  {[isActive |-> TRUE], [isActive |-> FALSE]}

\* stored lists the program can start from: unique Ids, at most one active
InitLists ==
  {<<>>,
   <<Cfg(1, <<"b">>, TRUE)>>,
   <<Cfg(1, <<"b">>, FALSE)>>,
   <<Cfg(1, <<"b">>, FALSE), Cfg(2, <<"c">>, TRUE)>>,
   <<Cfg(2, <<"b">>, TRUE), Cfg(1, <<"c">>, FALSE)>>}

\* the bundled services/mockData/bucketConfigs.json, used when nothing is stored
bucketConfigsData == <<Cfg(1, <<"b">>, TRUE)>>

NoCall == [op |-> "none", ok |-> FALSE]

\* form field values of the ConfigurationPanel
FieldValues == {<<" ">>, <<" ", "b", " ">>}
FormBase    == [k \in DataFields |-> <<"a">>]
Forms       ==
  {[FormBase EXCEPT ![k] = v] : k \in {"name"}, v \in FieldValues}
  \cup {[FormBase EXCEPT !["bucketName"] = <<>>]}

InitConfig ==
  /\ stored \in {NoItem} \cup {Stringify(l) : l \in InitLists}
  /\ configs = loadFromLocalStorage(bucketConfigsData, stored)
  /\ pending = {}
  /\ last = NoCall
  /\ saveState = [status |-> "none"]

----------------------------------------------------------------------------
(* Service operations: a call is queued (its await on setTimeout) and its  *)
(* body runs atomically when the delay elapses.                            *)

Invoke ==
  /\ Cardinality(pending) < MaxPending
  /\ \E c \in
        {[op |-> "create", data |-> d] : d \in ConfigDatas}
        \cup {[op |-> "update", id |-> i, data |-> d] :
                 i \in 1..MaxId, d \in UpdateDatas}
        \cup {[op |-> "delete", id |-> i] : i \in 1..MaxId}
        \cup {[op |-> "setActive", id |-> i] : i \in 1..MaxId} :
       pending' = pending \cup {c}
  /\ UNCHANGED <<configs, stored, last, saveState>>
  /\ UNCHANGED outsideConfig

Done(c, ok, res, saved) ==
  [op |-> c.op, id |-> IF c.op = "create" THEN 0 ELSE c.id, ok |-> ok,
   result |-> res, saved |-> saved]

NotFound(c) ==
  /\ last' = Done(c, FALSE, "Configuration not found", FALSE)
  /\ UNCHANGED <<configs, stored>>

create ==
  \E c \in pending, setItemOk \in BOOLEAN :
    /\ c.op = "create"
    /\ Len(configs) < MaxConfigs
    /\ NextId(configs) <= MaxId
    /\ pending' = pending \ {c}
    /\ configs' = createList(configs, c.data)
    /\ stored' = saveToLocalStorage(configs', stored, setItemOk)
    /\ last' = Done(c, TRUE, makeSerializable(configs'[Len(configs')]), setItemOk)
    /\ UNCHANGED saveState
    /\ UNCHANGED outsideConfig

update ==
  \E c \in pending, setItemOk \in BOOLEAN :
    /\ c.op = "update"
    /\ pending' = pending \ {c}
    /\ LET index == findIndex(configs, c.id) IN
       IF index = 0 THEN NotFound(c)
       ELSE /\ configs' = updateList(configs, index, c.data)
            /\ stored' = saveToLocalStorage(configs', stored, setItemOk)
            /\ last' = Done(c, TRUE, makeSerializable(configs'[index]), setItemOk)
    /\ UNCHANGED saveState
    /\ UNCHANGED outsideConfig

delete ==
  \E c \in pending, setItemOk \in BOOLEAN :
    /\ c.op = "delete"
    /\ pending' = pending \ {c}
    /\ LET index == findIndex(configs, c.id) IN
       IF index = 0 THEN NotFound(c)
       ELSE /\ configs' = deleteList(configs, index)
            /\ stored' = saveToLocalStorage(configs', stored, setItemOk)
            /\ last' = Done(c, TRUE, TRUE, setItemOk)
    /\ UNCHANGED saveState
    /\ UNCHANGED outsideConfig

setActive ==
  \E c \in pending, setItemOk \in BOOLEAN :
    /\ c.op = "setActive"
    /\ pending' = pending \ {c}
    /\ LET index == findIndex(configs, c.id) IN
       IF index = 0 THEN NotFound(c)
       ELSE /\ configs' = setActiveList(configs, index)
            /\ stored' = saveToLocalStorage(configs', stored, setItemOk)
            /\ last' = Done(c, TRUE, makeSerializable(configs'[index]), setItemOk)
    /\ UNCHANGED saveState
    /\ UNCHANGED outsideConfig

\* a page load constructs the service anew; timers of the old page are gone
constructor ==
  /\ configs' = loadFromLocalStorage(bucketConfigsData, stored)
  /\ pending' = {}
  /\ last' = NoCall
  /\ saveState' = [status |-> "none"]
  /\ UNCHANGED stored
  /\ UNCHANGED outsideConfig

----------------------------------------------------------------------------
(* ConfigurationPanel.handleSaveConfig *)

\* the methods BucketConfigService defines
ServiceMethods ==
  {"getAll", "getById", "getActive", "create", "update", "delete",
   "setActive", "testConnection"}

validateForm(formData) == \A k \in DataFields : Trim(formData[k]) # <<>>

\* the handler calls bucketConfigService.save(configData); calling a method
\* the service does not define throws a TypeError inside the try block, which
\* the catch turns into an error toast
handleSaveConfig ==
  /\ UNCHANGED outsideConfig
  /\ \E formData \in Forms :
    IF ~validateForm(formData)
    THEN /\ saveState' = [status |-> "invalid", formData |-> formData]
         /\ UNCHANGED <<configs, stored, pending, last>>
    ELSE LET configData == [k \in DataFields |-> Trim(formData[k])] IN
         IF "save" \in ServiceMethods
         THEN /\ pending' = pending \cup {[op |-> "save", data |-> configData]}
              /\ saveState' = [status |-> "saving", formData |-> formData]
              /\ UNCHANGED <<configs, stored, last>>
         ELSE /\ saveState' = [status |-> "failed", formData |-> formData,
                               configData |-> configData, onConfigSaved |-> FALSE,
                               toast |-> "error"]
              /\ UNCHANGED <<configs, stored, pending, last>>

----------------------------------------------------------------------------
NextConfig ==
  \/ Invoke
  \/ create
  \/ update
  \/ delete
  \/ setActive
  \/ constructor

\* the service together with the ConfigurationPanel
NextPanel ==
  \/ handleSaveConfig
  \/ NextConfig

----------------------------------------------------------------------------
(* Claims about BucketConfigService and the ConfigurationPanel *)

ActiveIndexes(list) == {i \in DOMAIN list : list[i].isActive}

\* C1: in every reachable state, whatever calls have completed or are still
\* pending, at most one configuration of the list has isActive = true.
C1_AtMostOneActive == Cardinality(ActiveIndexes(configs)) <= 1

\* C1 witness: two configurations, one of them active, after a successful
\* setActive that completed while another call was still pending
C1_Witness ==
  /\ last.op = "setActive" /\ last.ok
  /\ Len(configs) = 2
  /\ Cardinality(ActiveIndexes(configs)) = 1
  /\ pending # {}

\* C2: right after a successful create the created configuration is the only
\* active one of the list; right after a successful setActive(id) the
\* configuration with that Id is the only active one and getActive returns
\* a copy of it.
C2_CreateSetActive ==
  /\ (last.op = "create" /\ last.ok) =>
        \E i \in DOMAIN configs :
          /\ makeSerializable(configs[i]) = last.result
          /\ \A d \in ConfigDatas, k \in DataFields : configs[i][k] = d[k]
          /\ ActiveIndexes(configs) = {i}
  /\ (last.op = "setActive" /\ last.ok) =>
        \E i \in DOMAIN configs :
          /\ configs[i].Id = last.id
          /\ ActiveIndexes(configs) = {i}
          /\ getActive(configs) = makeSerializable(configs[i])
          /\ getActive(configs) = last.result

\* C2 witness: a setActive that moved the active flag to the first of two
\* configurations
C2_Witness ==
  /\ last.op = "setActive" /\ last.ok
  /\ Len(configs) = 2
  /\ configs[1].Id = last.id
  /\ ActiveIndexes(configs) = {1}

C4_SaveAddsActiveConfig ==
  (saveState.status # "none" /\ validateForm(saveState.formData)) =>
    /\ \E i \in DOMAIN configs :
         /\ \A k \in DataFields : configs[i][k] = Trim(saveState.formData[k])
         /\ configs[i].isActive
    /\ saveState.status = "saved"
    /\ saveState.onConfigSaved

----------------------------------------------------------------------------
(* Text operations used by S3Service and FileBrowser.  Indexes passed to   *)
(* lastIndexOf and slice are JavaScript's, counted from 0.                 *)

Code(c) ==
  CASE c = "/" -> 47 [] c = "A" -> 65 [] c = "B" -> 66
    [] c = "a" -> 97 [] c = "b" -> 98 [] c = "c" -> 99

\* s < t for strings: lexicographic by code unit (also S3's key order)
RECURSIVE StrLess(_, _)
StrLess(s, t) ==
  IF t = <<>> THEN FALSE
  ELSE IF s = <<>> THEN TRUE
  ELSE IF Head(s) # Head(t) THEN Code(Head(s)) < Code(Head(t))
  ELSE StrLess(Tail(s), Tail(t))

LowerChar(c) == CASE c = "A" -> "a" [] c = "B" -> "b" [] OTHER -> c

toLowerCase(s) == [i \in DOMAIN s |-> LowerChar(s[i])]

\* a.localeCompare(b): letters are ordered alphabetically whatever their
\* case; only when the two texts are the same up to case does case decide,
\* lower case first
RECURSIVE CaseOrder(_, _)
CaseOrder(s, t) ==
  IF s = <<>> THEN 0
  ELSE IF Head(s) = Head(t) THEN CaseOrder(Tail(s), Tail(t))
  ELSE IF Head(s) = LowerChar(Head(s)) THEN -1 ELSE 1

localeCompare(a, b) ==
  IF StrLess(toLowerCase(a), toLowerCase(b)) THEN -1
  ELSE IF StrLess(toLowerCase(b), toLowerCase(a)) THEN 1
  ELSE CaseOrder(a, b)

startsWith(s, p) == Len(p) <= Len(s) /\ SubSeq(s, 1, Len(p)) = p

includes(s, q) ==
  \E i \in 0..(Len(s) - Len(q)) : SubSeq(s, i + 1, i + Len(q)) = q

\* s.lastIndexOf(c, fromIndex)
lastIndexOf(s, c, fromIndex) ==
  LET from == IF fromIndex < 0 THEN 0 ELSE fromIndex
      hits == {i \in 0..(Len(s) - 1) : i <= from /\ s[i + 1] = c}
  IN IF hits = {} THEN -1 ELSE CHOOSE i \in hits : \A j \in hits : j <= i

\* s.slice(start, end)
slice(s, start, end) ==
  LET n    == Len(s)
      from == IF start < 0 THEN (IF n + start < 0 THEN 0 ELSE n + start)
              ELSE (IF start > n THEN n ELSE start)
      to   == IF end < 0 THEN (IF n + end < 0 THEN 0 ELSE n + end)
              ELSE (IF end > n THEN n ELSE end)
  IN IF from >= to THEN <<>> ELSE SubSeq(s, from + 1, to)

\* s.split('/').pop()
RECURSIVE lastSegment(_)
lastSegment(s) ==
  IF s = <<>> THEN <<>>
  ELSE IF s[Len(s)] = "/" THEN <<>>
  ELSE lastSegment(SubSeq(s, 1, Len(s) - 1)) \o <<s[Len(s)]>>

\* the elements of a finite set of records, ordered by Less on a text field
SortedBy(S, Key(_), Less(_, _)) ==
  LET rank(x) == Cardinality({y \in S : Less(Key(y), Key(x))}) + 1
  IN [k \in 1..Cardinality(S) |-> CHOOSE x \in S : rank(x) = k]

\* Array.prototype.sort with a consistent comparator (the sort is stable)
StableSort(s, Cmp(_, _)) ==
  LET n == Len(s)
      rank(i) == Cardinality({j \in 1..n :
                    Cmp(s[j], s[i]) < 0 \/ (Cmp(s[j], s[i]) = 0 /\ j < i)}) + 1
  IN [k \in 1..n |-> s[CHOOSE i \in 1..n : rank(i) = k]]

\* Array.prototype.filter
Filter(s, Keep(_)) ==
  LET kept == {i \in DOMAIN s : Keep(s[i])}
  IN [k \in 1..Cardinality(kept) |->
        s[CHOOSE i \in kept : Cardinality({j \in kept : j < i}) = k - 1]]

----------------------------------------------------------------------------
(* The bucket and the ListObjectsV2 request                                *)

Obj(key, size, modified) == [Key |-> key, Size |-> size, LastModified |-> modified]

\* the objects a bucket of the model may hold
Objects ==
  {Obj(<<"b">>, 1, 3),
   Obj(<<"A">>, 3, 1),
   Obj(<<"b", "B">>, 2, 2),
   Obj(<<"a", "/">>, 0, 2),
   Obj(<<"a", "/", "b">>, 1, 4),
   Obj(<<"a", "/", "c", "/", "b">>, 2, 1),
   Obj(<<"B", "/", "a">>, 1, 2)}

\* the bucket the FileBrowser specification starts from
BrowserObjects ==
  {o \in Objects : o.Key \in {<<"b">>, <<"a", "/">>, <<"a", "/", "b">>}}

\* the time new Date() gives while a listing is processed
Now == 5

\* the largest number of keys one ListObjectsV2 response carries
S3MaxKeys == 4

\* the response item a key belongs to: the key itself, or with a delimiter the
\* common prefix that ends at the first delimiter after the prefix
RollUp(key, prefix, delimiter) ==
  LET rest == SubSeq(key, Len(prefix) + 1, Len(key))
      cut  == IF delimiter = <<>> THEN {}
              ELSE {i \in DOMAIN rest : rest[i] = delimiter[1]}
  IN IF cut = {} THEN [common |-> FALSE, text |-> key]
     ELSE [common |-> TRUE,
           text |-> prefix \o SubSeq(rest, 1, CHOOSE i \in cut : \A j \in cut : i <= j)]

ItemText(x) == x.text

\* s3Client.send(new ListObjectsV2Command({Bucket, Prefix, Delimiter, MaxKeys})):
\* one page of at most maxKeys items, and never more than S3's own page size
ListObjectsV2Max(objs, prefix, delimiter, maxKeys) ==
  LET matching == {o \in objs : startsWith(o.Key, prefix)}
      items    == {RollUp(o.Key, prefix, delimiter) : o \in matching}
      ordered  == SortedBy(items, ItemText, StrLess)
      limit    == IF maxKeys < S3MaxKeys THEN maxKeys ELSE S3MaxKeys
      page     == SubSeq(ordered, 1, IF Len(ordered) < limit
                                      THEN Len(ordered) ELSE limit)
      IsCommon(x) == x.common
      IsObject(x) == ~x.common
      common   == Filter(page, IsCommon)
      keys     == Filter(page, IsObject)
  IN [CommonPrefixes |-> [i \in DOMAIN common |-> [Prefix |-> common[i].text]],
      Contents |-> [i \in DOMAIN keys |->
                      CHOOSE o \in matching : o.Key = keys[i].text],
      IsTruncated |-> Len(ordered) > limit]

\* s3Client.send(new ListObjectsV2Command({Bucket, Prefix, Delimiter}))
ListObjectsV2(objs, prefix, delimiter) ==
  ListObjectsV2Max(objs, prefix, delimiter, S3MaxKeys)

----------------------------------------------------------------------------
(* S3Service.listFiles                                                     *)

FolderEntry(p) ==
  [key |-> slice(p.Prefix, 0, -1),
   name |-> slice(p.Prefix, lastIndexOf(p.Prefix, "/", Len(p.Prefix) - 2) + 1, -1),
   size |-> 0, lastModified |-> Now, isFolder |-> TRUE]

FileEntry(obj) ==
  [key |-> obj.Key, name |-> lastSegment(obj.Key), size |-> obj.Size,
   lastModified |-> obj.LastModified, isFolder |-> FALSE]

listPrefix(path) == IF path # <<>> THEN path \o <<"/">> ELSE <<>>

listCompare_ByNameOnly(a, b) == localeCompare(a.name, b.name)

listCompare(a, b) ==
  IF a.isFolder /\ ~b.isFolder THEN -1
  ELSE IF ~a.isFolder /\ b.isFolder THEN 1
  ELSE localeCompare(a.name, b.name)

\* JSON.parse(JSON.stringify(list)) of a list of entries
serializeEntries(list) ==
  [i \in DOMAIN list |->
     [key |-> list[i].key, name |-> list[i].name, size |-> list[i].size,
      lastModified |-> list[i].lastModified, isFolder |-> list[i].isFolder]]

listFiles_KeepsPrefixObject(objs, path) ==
  LET response == ListObjectsV2(objs, listPrefix(path), <<"/">>)
      folders  == [i \in DOMAIN response.CommonPrefixes |->
                     FolderEntry(response.CommonPrefixes[i])]
      entries  == [i \in DOMAIN response.Contents |-> FileEntry(response.Contents[i])]
  IN serializeEntries(StableSort(folders \o entries, listCompare))

listFiles(objs, path) ==
  LET prefix   == listPrefix(path)
      response == ListObjectsV2(objs, prefix, <<"/">>)
      folders  == [i \in DOMAIN response.CommonPrefixes |->
                     FolderEntry(response.CommonPrefixes[i])]
      NotPrefix(obj) == obj.Key # prefix
      kept     == Filter(response.Contents, NotPrefix)
      entries  == [i \in DOMAIN kept |-> FileEntry(kept[i])]
  IN serializeEntries(StableSort(folders \o entries, listCompare))

----------------------------------------------------------------------------
(* FileBrowser state                                                       *)


Queries == {<<>>, <<"B">>}
Columns == {"name", "size", "modified"}
Orders  == {"asc", "desc"}

\* the comparator of filterAndSortFiles
SortValue(f, sortBy) ==
  CASE sortBy = "size" -> f.size
    [] sortBy = "modified" -> f.lastModified
    [] OTHER -> toLowerCase(f.name)

ValueLess(x, y, sortBy) ==
  IF sortBy \in {"size", "modified"} THEN x < y ELSE StrLess(x, y)

filterAndSortFiles_IgnoresOrder(list, v) ==
  LET q == toLowerCase(v.searchQuery)
      Matches(f) == includes(toLowerCase(f.name), q)
      filtered == IF v.searchQuery # <<>> THEN Filter(list, Matches) ELSE list
      Cmp(a, b) ==
        IF a.isFolder /\ ~b.isFolder THEN -1
        ELSE IF ~a.isFolder /\ b.isFolder THEN 1
        ELSE IF ValueLess(SortValue(a, v.sortBy), SortValue(b, v.sortBy), v.sortBy)
             THEN -1
        ELSE IF ValueLess(SortValue(b, v.sortBy), SortValue(a, v.sortBy), v.sortBy)
             THEN 1
        ELSE 0
  IN StableSort(filtered, Cmp)

filterAndSortFiles(list, v) ==
  LET q == toLowerCase(v.searchQuery)
      Matches(f) == includes(toLowerCase(f.name), q)
      filtered == IF v.searchQuery # <<>> THEN Filter(list, Matches) ELSE list
      Cmp(a, b) ==
        IF a.isFolder /\ ~b.isFolder THEN -1
        ELSE IF ~a.isFolder /\ b.isFolder THEN 1
        ELSE IF ValueLess(SortValue(a, v.sortBy), SortValue(b, v.sortBy), v.sortBy)
             THEN (IF v.sortOrder = "asc" THEN -1 ELSE 1)
        ELSE IF ValueLess(SortValue(b, v.sortBy), SortValue(a, v.sortBy), v.sortBy)
             THEN (IF v.sortOrder = "asc" THEN 1 ELSE -1)
        ELSE 0
  IN StableSort(filtered, Cmp)

\* s.split(sep) for a one-character separator
RECURSIVE split(_, _)
split(s, sep) ==
  LET cut == {i \in DOMAIN s : s[i] = sep}
  IN IF cut = {} THEN <<s>>
     ELSE LET i == CHOOSE k \in cut : \A j \in cut : k <= j
          IN <<SubSeq(s, 1, i - 1)>> \o split(SubSeq(s, i + 1, Len(s)), sep)

\* parts.join(sep)
RECURSIVE join(_, _)
join(parts, sep) ==
  IF parts = <<>> THEN <<>>
  ELSE IF Len(parts) = 1 THEN parts[1]
  ELSE parts[1] \o <<sep>> \o join(Tail(parts), sep)

\* getBreadcrumbs: parts.map((part, index) => ({name, path})), index from 0
getBreadcrumbs(path) ==
  IF path = <<>> THEN <<>>
  ELSE LET parts == split(path, "/")
       IN [k \in DOMAIN parts |->
             [name |-> parts[k], path |-> join(SubSeq(parts, 1, k), "/")]]

Nothing == [dialog |-> "none", accepted |-> FALSE, toast |-> "none"]

\* a step that opens no dialog and raises no toast
Quiet == shown' = Nothing

Idle == [loading |-> TRUE, error |-> "none", loaded |-> FALSE, path |-> <<>>]

InitBrowser ==
  /\ currentPath = <<>>
  /\ files = <<>>
  /\ filteredFiles = <<>>
  /\ selectedFiles = {}
  /\ view = [searchQuery |-> <<>>, sortBy |-> "name", sortOrder |-> "asc"]
  /\ status = Idle
  /\ listReqs = {[path |-> <<>>]}      \* the mount effect calls loadFiles
  /\ handlers = {}
  /\ shown = Nothing

\* the table, its rows and the toolbar are rendered only when the component
\* shows neither the Loading nor the Error screen
Interactive == ~status.loading /\ status.error = "none"

----------------------------------------------------------------------------
(* FileBrowser: loading, navigation, search and sort                       *)

\* loadFiles up to its await
loadFilesCall(path) ==
  /\ status' = [status EXCEPT !.loading = TRUE, !.error = "none"]
  /\ listReqs' = listReqs \cup {[path |-> path]}

\* filterAndSortFiles runs as an effect of files, searchQuery, sortBy, sortOrder
Refilter == filteredFiles' = filterAndSortFiles(files', view')

\* onPathChange: S3Manager sets currentPath; the effect on currentPath reloads
onPathChange(path) ==
  /\ currentPath' = path
  /\ IF path # currentPath THEN loadFilesCall(path)
     ELSE UNCHANGED <<status, listReqs>>
  /\ Quiet
  /\ UNCHANGED <<bucket, files, filteredFiles, selectedFiles, view, handlers>>

handleFileClick ==
  /\ UNCHANGED outsideBrowser
  /\ Interactive
  /\ \E i \in DOMAIN filteredFiles :
       /\ filteredFiles[i].isFolder
       /\ onPathChange(filteredFiles[i].key)

breadcrumbClick ==
  /\ UNCHANGED outsideBrowser
  /\ Interactive
  /\ LET crumbs == getBreadcrumbs(currentPath)
     IN \E path \in {crumbs[k].path : k \in DOMAIN crumbs} \cup {<<>>} :
          onPathChange(path)

\* the Refresh button, and Retry on the Error screen
refresh ==
  /\ UNCHANGED outsideBrowser
  /\ ~status.loading
  /\ loadFilesCall(currentPath)
  /\ Quiet
  /\ UNCHANGED <<bucket, currentPath, files, filteredFiles, selectedFiles, view,
                 handlers>>

\* loadFiles after its await: the listing arrived, or listFiles threw
loadFilesDone ==
  \E r \in listReqs, ok \in BOOLEAN :
    /\ UNCHANGED outsideBrowser
    /\ listReqs' = listReqs \ {r}
    /\ IF ok
       THEN /\ files' = listFiles(bucket, r.path)
            /\ selectedFiles' = {}
            /\ status' = [status EXCEPT !.loading = FALSE, !.loaded = TRUE,
                                        !.path = r.path]
       ELSE /\ status' = [status EXCEPT !.loading = FALSE,
                                        !.error = "Failed to list files"]
            /\ UNCHANGED <<files, selectedFiles>>
    /\ UNCHANGED view
    /\ Refilter
    /\ Quiet
    /\ UNCHANGED <<bucket, currentPath, handlers>>

setSearchQuery ==
  /\ UNCHANGED outsideBrowser
  /\ Interactive
  /\ \E q \in Queries : view' = [view EXCEPT !.searchQuery = q]
  /\ UNCHANGED files
  /\ Refilter
  /\ Quiet
  /\ UNCHANGED <<bucket, currentPath, selectedFiles, status, listReqs, handlers>>

\* a click on a column header
handleSort ==
  /\ UNCHANGED outsideBrowser
  /\ Interactive
  /\ Len(filteredFiles) > 0
  /\ \E column \in Columns :
       view' = IF view.sortBy = column
               THEN [view EXCEPT !.sortOrder = IF @ = "asc" THEN "desc" ELSE "asc"]
               ELSE [view EXCEPT !.sortBy = column, !.sortOrder = "asc"]
  /\ UNCHANGED files
  /\ Refilter
  /\ Quiet
  /\ UNCHANGED <<bucket, currentPath, selectedFiles, status, listReqs, handlers>>

\* the sort <select>
sortSelect ==
  /\ UNCHANGED outsideBrowser
  /\ Interactive
  /\ \E column \in Columns, order \in Orders :
       view' = [view EXCEPT !.sortBy = column, !.sortOrder = order]
  /\ UNCHANGED files
  /\ Refilter
  /\ Quiet
  /\ UNCHANGED <<bucket, currentPath, selectedFiles, status, listReqs, handlers>>

----------------------------------------------------------------------------
(* FileBrowser: selection                                                  *)

handleFileSelect ==
  /\ UNCHANGED outsideBrowser
  /\ Interactive
  /\ \E i \in DOMAIN filteredFiles :
       LET fileKey == filteredFiles[i].key IN
       selectedFiles' = IF fileKey \in selectedFiles
                        THEN selectedFiles \ {fileKey}
                        ELSE selectedFiles \cup {fileKey}
  /\ Quiet
  /\ UNCHANGED <<bucket, currentPath, files, filteredFiles, view, status,
                 listReqs, handlers>>

\* checked = {filteredFiles.length > 0 && selectedFiles.size === filteredFiles.length}
selectAllChecked ==
  Len(filteredFiles) > 0 /\ Cardinality(selectedFiles) = Len(filteredFiles)

handleSelectAll ==
  /\ UNCHANGED outsideBrowser
  /\ Interactive
  /\ Len(filteredFiles) > 0
  /\ selectedFiles' =
       IF Cardinality(selectedFiles) = Len(filteredFiles) THEN {}
       ELSE {filteredFiles[i].key : i \in DOMAIN filteredFiles}
  /\ Quiet
  /\ UNCHANGED <<bucket, currentPath, files, filteredFiles, view, status,
                 listReqs, handlers>>

----------------------------------------------------------------------------
(* FileBrowser: deleting                                                   *)

\* S3Service.deleteFile: one DeleteObjectCommand
deleteFile(objs, fileKey) == {o \in objs : o.Key # fileKey}

\* S3Service.deleteFolder: list the keys under folderKey + '/', then delete
\* the listed keys with one DeleteObjectsCommand
deleteFolder(objs, folderKey) ==
  LET response == ListObjectsV2(objs, folderKey \o <<"/">>, <<>>)
  IN objs \ {response.Contents[i] : i \in DOMAIN response.Contents}

\* files.find(f => f.key === fileKey)?.isFolder
findIsFolder(list, fileKey) ==
  LET hits == {i \in DOMAIN list : list[i].key = fileKey}
  IN hits # {} /\ list[CHOOSE i \in hits : \A j \in hits : i <= j].isFolder

DeleteCall(isFolder, fileKey) ==
  [op |-> IF isFolder THEN "deleteFolder" ELSE "deleteFile", key |-> fileKey]

FreeId == CHOOSE i \in 1..MaxHandlers : \A h \in handlers : h.id # i

Handler(kind, calls) ==
  [id |-> FreeId, kind |-> kind, waiting |-> calls, path |-> currentPath,
   failed |-> FALSE]

Answer(kind, accept) ==
  shown' = [dialog |-> kind, accepted |-> accept, toast |-> "none"]

\* Array.from(selectedFiles).map(async (fileKey) => ...): the calls of a bulk delete
bulkCalls(list, selected) ==
  {DeleteCall(findIsFolder(list, k), k) : k \in selected}

confirmed_Always(accept) == TRUE

\* window.confirm(...) returned true
confirmed(accept) == accept

handleDelete ==
  /\ UNCHANGED outsideBrowser
  /\ Interactive
  /\ \E i \in DOMAIN filteredFiles, accept \in BOOLEAN :
       /\ Answer("delete", accept)
       /\ IF ~confirmed(accept) THEN UNCHANGED handlers
          ELSE /\ Cardinality(handlers) < MaxHandlers
               /\ handlers' = handlers \cup
                    {Handler("single", {DeleteCall(filteredFiles[i].isFolder,
                                                   filteredFiles[i].key)})}
  /\ UNCHANGED <<bucket, currentPath, files, filteredFiles, selectedFiles, view,
                 status, listReqs>>

handleBulkDelete ==
  /\ UNCHANGED outsideBrowser
  /\ Interactive
  /\ selectedFiles # {}
  /\ \E accept \in BOOLEAN :
       /\ Answer("bulk", accept)
       /\ IF ~confirmed(accept) THEN UNCHANGED handlers
          ELSE /\ Cardinality(handlers) < MaxHandlers
               /\ handlers' = handlers \cup
                    {Handler("bulk", bulkCalls(files, selectedFiles))}
  /\ UNCHANGED <<bucket, currentPath, files, filteredFiles, selectedFiles, view,
                 status, listReqs>>

Toast(kind) == shown' = [Nothing EXCEPT !.toast = kind]

\* what a bulk delete does to the selection once every call has succeeded
afterBulkDelete_KeepsSelection(selected) == selected

afterBulkDelete(selected) == {}

\* one delete call of a handler settles; the handler continues after its
\* await (Promise.all for a bulk delete) when every call has succeeded, and
\* enters its catch at the first call that fails
deleteDone ==
  \E h \in handlers, ok \in BOOLEAN :
    \E c \in h.waiting :
      LET waiting == h.waiting \ {c}
          rest    == handlers \ {h}
      IN
      /\ UNCHANGED outsideBrowser
      /\ bucket' = IF ~ok THEN bucket
                   ELSE IF c.op = "deleteFolder" THEN deleteFolder(bucket, c.key)
                   ELSE deleteFile(bucket, c.key)
      /\ handlers' = IF waiting = {} THEN rest
                     ELSE rest \cup {[h EXCEPT !.waiting = waiting,
                                               !.failed = h.failed \/ ~ok]}
      /\ IF ok /\ waiting = {} /\ ~h.failed
         THEN /\ Toast(IF h.kind = "bulk" THEN "bulkDeleted" ELSE "deleted")
              /\ selectedFiles' = IF h.kind = "bulk"
                                  THEN afterBulkDelete(selectedFiles)
                                  ELSE selectedFiles
              /\ loadFilesCall(h.path)
         ELSE IF ~ok /\ ~h.failed
         THEN /\ Toast(IF h.kind = "bulk" THEN "bulkFailed" ELSE "deleteFailed")
              /\ UNCHANGED <<selectedFiles, status, listReqs>>
         ELSE Quiet /\ UNCHANGED <<selectedFiles, status, listReqs>>
      /\ UNCHANGED <<currentPath, files, filteredFiles, view>>

----------------------------------------------------------------------------
(* S3Service: the client, and the course of one operation.  An operation   *)
(* awaits ensureClient, sends its first request, and continues when the    *)
(* response arrives; deleteFolder and createFolder then send a second one. *)

MaxS3Calls == 1      \* S3Service operations running at once

\* a thrown value: its name and its message, a sequence of text pieces
Thrown(name, message) == [name |-> name, message |-> message]

\* new Error(msg) inside s3Service.js, where `Error` is the default import of
\* components/ui/Error, an arrow-function component: `new` on an arrow
\* function throws a TypeError and the message given is lost
NewError(message) == Thrown("TypeError", <<"Error is not a constructor">>)

\* what an S3 request rejects with
S3Exception == Thrown("S3ServiceException", <<"Access Denied">>)

\* new S3Client({region, credentials}) built from a configuration
S3Client(config) ==
  [region |-> config.region, accessKeyId |-> config.accessKey,
   secretAccessKey |-> config.secretKey]

\* a request as S3 receives it: the command, the client that sent it (its
\* credentials), the Bucket it names and its Key or Prefix (for DeleteObjects,
\* the prefix that was listed and the keys to delete)
RequestOf(cmd, client, bk, key, keys) ==
  [cmd |-> cmd, client |-> client, Bucket |-> bk, key |-> key, keys |-> keys]

Request(cmd, client, bk, key) == RequestOf(cmd, client, bk, key, {})

\* path ? `${path}/${name}` : name
joinKey(path, name) == IF path # <<>> THEN path \o <<"/">> \o name ELSE name

\* createFolder: const folderKey = path ? `${path}/${folderName}/` : `${folderName}/`
folderKeyOf(folderName, path) == joinKey(path, folderName) \o <<"/">>

\* deleteFolder: Prefix: `${folderKey}/`
folderPrefix_NoSlash(folderKey) == folderKey

folderPrefix(folderKey) == folderKey \o <<"/">>

\* the first request of each operation, built after ensureClient from
\* this.s3Client and this.bucketName
firstRequest(op, args, client, bk) ==
  CASE op = "listFiles"    -> Request("ListObjectsV2", client, bk, listPrefix(args.path))
    [] op = "searchFiles"  -> Request("ListObjectsV2", client, bk, listPrefix(args.path))
    [] op = "uploadFile"   -> Request("Upload", client, bk, joinKey(args.path, args.name))
    [] op = "downloadFile" -> Request("GetObject", client, bk, args.key)
    [] op = "deleteFile"   -> Request("DeleteObject", client, bk, args.key)
    [] op = "deleteFolder" -> Request("ListObjectsV2", client, bk, folderPrefix(args.key))
    [] op = "createFolder" ->
         Request("ListObjectsV2", client, bk, folderKeyOf(args.name, args.path))

\* the catch of each operation: throw new Error(`Failed to ...: ${error.message}`)
failurePrefix(op) ==
  CASE op = "initializeClient" -> "Failed to initialize S3 client: "
    [] op = "listFiles"    -> "Failed to list files: "
    [] op = "searchFiles"  -> "Failed to search files: "
    [] op = "uploadFile"   -> "Failed to upload file: "
    [] op = "downloadFile" -> "Failed to download file: "
    [] op = "deleteFile"   -> "Failed to delete file: "
    [] op = "deleteFolder" -> "Failed to delete folder: "
    [] op = "createFolder" -> "Failed to create folder: "

rethrow(op, error) == NewError(<<failurePrefix(op)>> \o error.message)

\* everything but the S3Service and the bucket
outsideS3 ==
  <<configVars, panelVars, shareVars, uploadVars, messageVars, currentPath, files,
    filteredFiles, selectedFiles, view, status, listReqs, handlers, shown>>

\* the arguments of an operation; the ones it does not take are left empty
Args(key, name, path, size) == [key |-> key, name |-> name, path |-> path, size |-> size]

NoArgs == Args(<<>>, <<>>, <<>>, 0)

NoS3Call ==
  [op |-> "none", args |-> NoArgs, ok |-> FALSE, result |-> "none", sent |-> <<>>,
   rejected |-> FALSE, message |-> <<>>]

S3AtRest ==
  /\ s3Client = Null
  /\ bucketName = <<>>
  /\ s3Calls = {}
  /\ s3Last = NoS3Call

\* the operation returns: its promise resolves
s3Return(c) ==
  /\ s3Calls' = s3Calls \ {c}
  /\ s3Last' = [op |-> c.op, args |-> c.args, ok |-> TRUE,
                result |-> IF c.op \in {"deleteFolder", "createFolder"}
                           THEN "true" ELSE "value",
                sent |-> c.sent, rejected |-> FALSE, message |-> <<>>]

\* the operation's catch block rethrows: its promise rejects (rejected tells
\* whether it caught the rejection of a request)
s3Throw(c, error) ==
  /\ s3Calls' = s3Calls \ {c}
  /\ s3Last' = [op |-> c.op, args |-> c.args, ok |-> FALSE, result |-> "none",
                sent |-> c.sent, rejected |-> (error = S3Exception),
                message |-> rethrow(c.op, error).message]

\* an operation is called: ensureClient starts initializeClient when no client
\* is set, and otherwise the first request goes out at once
s3Call(inputs) ==
  /\ Cardinality(s3Calls) < MaxS3Calls
  /\ \E inp \in inputs :
       /\ s3Calls' = s3Calls \cup
            {IF s3Client = Null
             THEN [op |-> inp.op, args |-> inp.args, phase |-> "init", sent |-> <<>>,
                   listed |-> {}]
             ELSE [op |-> inp.op, args |-> inp.args, phase |-> "first",
                   sent |-> <<firstRequest(inp.op, inp.args, s3Client, bucketName)>>,
                   listed |-> {}]}
  /\ UNCHANGED <<s3Client, bucketName, s3Last, bucket>>
  /\ UNCHANGED outsideS3

\* initializeClient after its await on bucketConfigService.getActive()
initializeClient ==
  \E c \in s3Calls :
    /\ c.phase = "init"
    /\ LET config == getActive(configs) IN
       IF config = Null
       THEN /\ s3Throw(c, rethrow("initializeClient",
                 NewError(<<"No active S3 configuration found",
                            ". Please configure your S3 settings first.">>)))
            /\ UNCHANGED <<s3Client, bucketName>>
       ELSE /\ s3Client' = S3Client(config)
            /\ bucketName' = config.bucketName
            /\ s3Calls' = (s3Calls \ {c}) \cup
                 {[c EXCEPT !.phase = "first",
                            !.sent = <<firstRequest(c.op, c.args, s3Client',
                                                    bucketName')>>]}
            /\ UNCHANGED s3Last
    /\ UNCHANGED bucket
    /\ UNCHANGED outsideS3

\* Upload of one object: it replaces the object of the same key
putObject(objs, key, size) == {o \in objs : o.Key # key} \cup {Obj(key, size, Now)}

\* DeleteObjectsCommand({Delete: {Objects: keys}})
deleteObjects(objs, keys) == {o \in objs : o.Key \notin keys}

\* the response to the first request arrives, or the request is rejected
s3Response ==
  \E c \in s3Calls, ok \in BOOLEAN :
    /\ c.phase = "first"
    /\ UNCHANGED <<s3Client, bucketName>>
    /\ UNCHANGED outsideS3
    /\ IF ~ok THEN s3Throw(c, S3Exception) /\ UNCHANGED bucket
       ELSE CASE c.op \in {"listFiles", "searchFiles"} ->
                   s3Return(c) /\ UNCHANGED bucket
              [] c.op = "downloadFile" ->
                   /\ \E o \in bucket : o.Key = c.args.key
                   /\ s3Return(c) /\ UNCHANGED bucket
              [] c.op = "uploadFile" ->
                   /\ bucket' = putObject(bucket, joinKey(c.args.path, c.args.name),
                                          c.args.size)
                   /\ s3Return(c)
              [] c.op = "deleteFile" ->
                   /\ bucket' = deleteFile(bucket, c.args.key)
                   /\ s3Return(c)
              [] c.op = "deleteFolder" ->
                   LET response == ListObjectsV2(bucket, folderPrefix(c.args.key), <<>>)
                       keys == {response.Contents[i].Key : i \in DOMAIN response.Contents}
                   IN /\ UNCHANGED bucket
                      /\ IF Len(response.Contents) > 0
                         THEN /\ s3Calls' = (s3Calls \ {c}) \cup
                                   {[c EXCEPT !.phase = "second", !.listed = keys,
                                        !.sent = @ \o <<RequestOf("DeleteObjects",
                                                   s3Client, bucketName,
                                                   folderPrefix(c.args.key), keys)>>]}
                              /\ UNCHANGED s3Last
                         ELSE s3Return(c)
              [] c.op = "createFolder" ->
                   LET folderKey == folderKeyOf(c.args.name, c.args.path)
                       response  == ListObjectsV2Max(bucket, folderKey, <<>>, 1)
                   IN /\ UNCHANGED bucket
                      /\ IF Len(response.Contents) > 0
                         THEN s3Throw(c, NewError(<<"Folder already exists">>))
                         ELSE /\ s3Calls' = (s3Calls \ {c}) \cup
                                   {[c EXCEPT !.phase = "second",
                                        !.sent = @ \o <<Request("Upload", s3Client,
                                                   bucketName, folderKey)>>]}
                              /\ UNCHANGED s3Last

\* the response to the second request of deleteFolder or createFolder
s3SecondResponse ==
  \E c \in s3Calls, ok \in BOOLEAN :
    /\ c.phase = "second"
    /\ UNCHANGED <<s3Client, bucketName>>
    /\ UNCHANGED outsideS3
    /\ IF ~ok THEN s3Throw(c, S3Exception) /\ UNCHANGED bucket
       ELSE /\ bucket' = IF c.op = "deleteFolder" THEN deleteObjects(bucket, c.listed)
                         ELSE putObject(bucket, folderKeyOf(c.args.name, c.args.path), 0)
            /\ s3Return(c)

----------------------------------------------------------------------------
(* Specifications                                                          *)

\* the parts of the application a specification leaves at rest
ConfigAtRest ==
  /\ configs = bucketConfigsData
  /\ stored = NoItem
  /\ pending = {}
  /\ last = NoCall
  /\ saveState = [status |-> "none"]

BrowserAtRest == InitBrowser /\ bucket = {}

\* ConfigurationPanel and S3Manager not mounted
PanelAtRest ==
  /\ panelConfigs = <<>>
  /\ panelActiveConfig = Null
  /\ managerActiveConfig = Null
  /\ panelCalls = {}

\* no share dialog open
ShareAtRest ==
  /\ shareUrl = <<>>
  /\ shareStatus = [file |-> <<>>, loading |-> TRUE, error |-> "none"]
  /\ expiresIn = 24
  /\ shareReqs = {}

\* the FileUploader freshly mounted, nothing dropped yet
UploaderAtRest ==
  /\ uploadTasks = <<>>
  /\ isUploading = FALSE
  /\ uploads = {}
  /\ timers = {}
  /\ uploaderMounted = TRUE

\* no message to post
MessageAtRest ==
  /\ heap = <<>>
  /\ postInput = [none |-> TRUE]
  /\ serLast = [done |-> FALSE]
  /\ postLast = [done |-> FALSE]

InitService ==
  /\ InitConfig /\ BrowserAtRest /\ S3AtRest /\ PanelAtRest /\ ShareAtRest
  /\ UploaderAtRest /\ MessageAtRest

\* BucketConfigService alone
SpecConfig == InitService /\ [][NextConfig]_vars

\* BucketConfigService with the ConfigurationPanel
SpecPanel == InitService /\ [][NextPanel]_vars

\* listing, navigation, search and sort over every bucket of the model
InitView ==
  /\ ConfigAtRest /\ InitBrowser /\ bucket \in SUBSET Objects
  /\ S3AtRest /\ PanelAtRest /\ ShareAtRest /\ UploaderAtRest /\ MessageAtRest

NextView ==
  \/ handleFileClick
  \/ breadcrumbClick
  \/ refresh
  \/ loadFilesDone
  \/ setSearchQuery
  \/ handleSort
  \/ sortSelect

SpecView == InitView /\ [][NextView]_vars

\* the FileBrowser with selection and deletion, sorted by name
InitFileBrowser ==
  /\ ConfigAtRest /\ InitBrowser /\ bucket = BrowserObjects
  /\ S3AtRest /\ PanelAtRest /\ ShareAtRest /\ UploaderAtRest /\ MessageAtRest

NextBrowser ==
  \/ handleFileClick
  \/ breadcrumbClick
  \/ refresh
  \/ loadFilesDone
  \/ setSearchQuery
  \/ handleFileSelect
  \/ handleSelectAll
  \/ handleDelete
  \/ handleBulkDelete
  \/ deleteDone

SpecBrowser == InitFileBrowser /\ [][NextBrowser]_vars

----------------------------------------------------------------------------
(* Claims about S3Service.listFiles and the FileBrowser's displayed list   *)

FolderIndexes(list) == {i \in DOMAIN list : list[i].isFolder}
FileIndexes(list)   == {i \in DOMAIN list : ~list[i].isFolder}

\* C5: the files loaded for path p are the answer to a listing with prefix
\* p + '/' ('' at the root) and delimiter '/': one folder entry per returned
\* common prefix (key = the prefix without its last '/', name = the last
\* segment of that key), one file entry per returned object, and none for the
\* object whose key is the prefix itself.
C5_ListFilesEntries ==
  status.loaded =>
    LET p        == status.path
        prefix   == IF p = <<>> THEN <<>> ELSE p \o <<"/">>
        response == ListObjectsV2(bucket, prefix, <<"/">>)
        common   == {response.CommonPrefixes[i].Prefix :
                       i \in DOMAIN response.CommonPrefixes}
        objects  == {response.Contents[i] : i \in DOMAIN response.Contents}
    IN
    /\ Cardinality(FolderIndexes(files)) = Len(response.CommonPrefixes)
    /\ \A c \in common : \E i \in FolderIndexes(files) :
         /\ files[i].key \o <<"/">> = c
         /\ files[i].name = lastSegment(files[i].key)
    /\ Cardinality(FileIndexes(files)) =
         Cardinality({o \in objects : o.Key # prefix})
    /\ \A o \in objects : o.Key # prefix =>
         \E i \in FileIndexes(files) :
           /\ files[i].key = o.Key
           /\ files[i].name = lastSegment(o.Key)
           /\ files[i].size = o.Size
    /\ \A i \in FileIndexes(files) : files[i].key # prefix

\* C5 witness: folder 'a' listed while the bucket holds the marker object
\* 'a/', a file and a sub-folder under it
C5_Witness ==
  /\ status.loaded /\ status.path = <<"a">>
  /\ \E o \in bucket : o.Key = <<"a", "/">>
  /\ Cardinality(FolderIndexes(files)) = 1
  /\ Cardinality(FileIndexes(files)) = 1

\* C6: in the loaded files every folder entry precedes every file entry, and
\* folders among themselves and files among themselves are in ascending
\* alphabetical order of name (the order of localeCompare).
C6_ListFilesOrder ==
  status.loaded =>
    \A i, j \in DOMAIN files : i < j =>
      /\ ~(~files[i].isFolder /\ files[j].isFolder)
      /\ files[i].isFolder = files[j].isFolder =>
           localeCompare(files[i].name, files[j].name) <= 0

\* C6 witness: a root listing of two folders and two files whose order in the
\* result differs from the key order of the response
C6_Witness ==
  /\ status.loaded /\ status.path = <<>>
  /\ Len(files) = 4
  /\ files[1].name = <<"a">> /\ files[1].isFolder
  /\ files[2].name = <<"B">> /\ files[2].isFolder
  /\ ~files[3].isFolder /\ ~files[4].isFolder

\* name contains query, whatever the case of the letters
ContainsIgnoringCase(name, query) ==
  \E i \in 0..(Len(name) - Len(query)) :
    \A k \in 1..Len(query) : LowerChar(name[i + k]) = LowerChar(query[k])

Occurrences(list, e) == Cardinality({i \in DOMAIN list : list[i] = e})

ColumnLeq(a, b, column) ==
  CASE column = "size" -> a.size <= b.size
    [] column = "modified" -> a.lastModified <= b.lastModified
    [] OTHER -> ~StrLess(toLowerCase(b.name), toLowerCase(a.name))

\* C7: the displayed list holds exactly the loaded entries whose name contains
\* the search query case-insensitively (all of them for the empty query),
\* folders before files, and folders and files each ordered by the selected
\* column, ascending for 'asc' and descending for 'desc'.
C7_DisplayedList ==
  /\ \A i \in DOMAIN files :
       Occurrences(filteredFiles, files[i]) =
         IF ContainsIgnoringCase(files[i].name, view.searchQuery)
         THEN Occurrences(files, files[i]) ELSE 0
  /\ \A i \in DOMAIN filteredFiles : Occurrences(files, filteredFiles[i]) > 0
  /\ \A i, j \in DOMAIN filteredFiles : i < j =>
       /\ ~(~filteredFiles[i].isFolder /\ filteredFiles[j].isFolder)
       /\ filteredFiles[i].isFolder = filteredFiles[j].isFolder =>
            IF view.sortOrder = "asc"
            THEN ColumnLeq(filteredFiles[i], filteredFiles[j], view.sortBy)
            ELSE ColumnLeq(filteredFiles[j], filteredFiles[i], view.sortBy)

\* C7 witness: a search that hides an entry, with two matching files shown in
\* descending order of size, the reverse of their order in the loaded list
C7_Witness ==
  /\ view.searchQuery = <<"B">> /\ view.sortBy = "size" /\ view.sortOrder = "desc"
  /\ Len(filteredFiles) < Len(files)
  /\ \E i, j \in DOMAIN filteredFiles :
       /\ i < j
       /\ ~filteredFiles[i].isFolder /\ ~filteredFiles[j].isFolder
       /\ filteredFiles[i].size > filteredFiles[j].size
       /\ \E m, n \in DOMAIN files :
            m > n /\ files[m] = filteredFiles[i] /\ files[n] = filteredFiles[j]

----------------------------------------------------------------------------
(* Claims about selection and deletion in the FileBrowser                  *)

DisplayedKeys == {filteredFiles[i].key : i \in DOMAIN filteredFiles}

\* C8: whenever the header checkbox is shown checked every displayed entry is
\* selected, and activating it while it is unchecked makes the selection the
\* set of the displayed entries' keys.
C8_SelectAllCheckbox ==
  [][ /\ (Interactive' /\ selectAllChecked') => (DisplayedKeys' \subseteq selectedFiles')
      /\ (handleSelectAll /\ ~selectAllChecked) => (selectedFiles' = DisplayedKeys)
    ]_vars

NewHandlers == {h \in handlers' : \A g \in handlers : g.id # h.id}

IsFolderEntryKey(k) == \E i \in DOMAIN files : files[i].isFolder /\ files[i].key = k

\* C9: a confirmed bulk delete issues exactly one call per selected key,
\* deleteFolder for the keys of folder entries and deleteFile for the others;
\* when the last call succeeds and none has failed the selection is emptied
\* and a reload is started; when a call fails the selection and the loads in
\* flight stay as they were.
C9_BulkDelete ==
  [][ /\ (shown'.dialog = "bulk" /\ shown'.accepted) =>
           \E h \in NewHandlers :
             /\ NewHandlers = {h}
             /\ h.kind = "bulk"
             /\ {c.key : c \in h.waiting} = selectedFiles
             /\ \A k \in selectedFiles :
                  {c \in h.waiting : c.key = k} =
                    {[op |-> IF IsFolderEntryKey(k) THEN "deleteFolder"
                             ELSE "deleteFile", key |-> k]}
      /\ \A h \in handlers :
           (h.kind = "bulk" /\ ~h.failed /\ Cardinality(h.waiting) = 1
              /\ handlers' = handlers \ {h}) =>
             shown'.toast \in {"bulkDeleted", "bulkFailed"}
      /\ shown'.toast = "bulkDeleted" =>
           \E h \in handlers \ handlers' :
             /\ h.kind = "bulk" /\ ~h.failed
             /\ selectedFiles' = {}
             /\ status'.loading
             /\ listReqs' = listReqs \cup {[path |-> h.path]}
      /\ shown'.toast = "bulkFailed" =>
           /\ selectedFiles' = selectedFiles
           /\ listReqs' = listReqs
           /\ status' = status
           /\ files' = files
    ]_vars

\* C9 witness: a bulk delete of the folder and the file of the root listing
\* has succeeded: the bucket is empty, the selection cleared, a reload running
C9_Witness ==
  /\ shown.toast = "bulkDeleted"
  /\ bucket = {}
  /\ selectedFiles = {}
  /\ status.loading /\ [path |-> <<>>] \in listReqs

\* C10: a delete handler starts its calls only in a step whose confirmation
\* dialog was accepted, a single delete calling for the entry of its row
\* only; a declined dialog leaves the bucket, the listing, the selection and
\* the calls in flight unchanged.
C10_DeleteNeedsConfirmation ==
  [][ /\ NewHandlers # {} =>
           /\ shown'.dialog # "none" /\ shown'.accepted
           /\ \A h \in NewHandlers : h.kind = "single" =>
                \E i \in DOMAIN filteredFiles :
                  h.waiting = {[op |-> IF filteredFiles[i].isFolder
                                       THEN "deleteFolder" ELSE "deleteFile",
                                key |-> filteredFiles[i].key]}
      /\ (\E h \in handlers' : \E g \in handlers : g.id = h.id) =>
           \A h \in handlers' : \A g \in handlers :
             g.id = h.id => h.waiting \subseteq g.waiting
      /\ (shown'.dialog # "none" /\ ~shown'.accepted) =>
           UNCHANGED <<bucket, files, filteredFiles, selectedFiles, handlers,
                       listReqs, status>>
      /\ bucket' # bucket => handlers # {}
    ]_vars

\* C10 witness: the bulk-delete dialog was declined with entries selected
C10_Witness ==
  /\ shown.dialog = "bulk" /\ ~shown.accepted
  /\ selectedFiles # {}
  /\ handlers = {}
  /\ bucket = BrowserObjects

----------------------------------------------------------------------------
(* S3Service.deleteFolder and createFolder over buckets of folder objects  *)

\* a folder 'a' of five objects, and objects next to it: 'a' itself, 'ab/a'
\* whose key starts with 'a' but not with 'a/', and 'b'
FolderObjects ==
  {Obj(<<"a", "/">>, 0, 2),
   Obj(<<"a", "/", "A">>, 1, 1),
   Obj(<<"a", "/", "a">>, 1, 1),
   Obj(<<"a", "/", "b">>, 1, 1),
   Obj(<<"a", "/", "c">>, 1, 1),
   Obj(<<"a">>, 1, 1),
   Obj(<<"a", "b", "/", "a">>, 1, 1),
   Obj(<<"b">>, 1, 1)}

FolderInputs ==
  {[op |-> "deleteFolder", args |-> Args(<<"a">>, <<>>, <<>>, 0)],
   [op |-> "createFolder", args |-> Args(<<>>, <<"a">>, <<>>, 0)],
   [op |-> "createFolder", args |-> Args(<<>>, <<"b">>, <<>>, 0)],
   [op |-> "createFolder", args |-> Args(<<>>, <<"c">>, <<"a">>, 0)]}

callFolderOperation == s3Call(FolderInputs)

InitFolders ==
  /\ ConfigAtRest /\ InitBrowser /\ bucket \in SUBSET FolderObjects
  /\ S3AtRest /\ PanelAtRest /\ ShareAtRest /\ UploaderAtRest /\ MessageAtRest

NextFolders ==
  \/ callFolderOperation
  \/ initializeClient
  \/ s3Response
  \/ s3SecondResponse

SpecFolders == InitFolders /\ [][NextFolders]_vars

KeysOf(objs) == {o.Key : o \in objs}

Under(objs, prefix) == {o \in objs : startsWith(o.Key, prefix)}

\* the call that takes this step, and the call that returns or throws in it
Acting(c) == c \in s3Calls /\ c \notin s3Calls'

Finishing(c) == Acting(c) /\ Cardinality(s3Calls') < Cardinality(s3Calls)

MessageHas(message, text) == \E i \in DOMAIN message : message[i] = text

\* C11: when deleteFolder(k) returns successfully no object whose key starts
\* with k + '/' is left in the bucket, however many objects the folder held.
C11_DeleteFolderEmptiesFolder ==
  [][ \A c \in s3Calls :
        (Finishing(c) /\ c.op = "deleteFolder" /\ s3Last'.ok) =>
          Under(bucket', c.args.key \o <<"/">>) = {}
    ]_vars

\* C12: deleteFolder(k) removes only objects whose key starts with k + '/';
\* when no object has such a key it sends no delete request, leaves the
\* bucket as it is and returns true unless its listing was rejected.
C12_DeleteFolderFrame ==
  [][ \A c \in s3Calls : (c.op = "deleteFolder" /\ Acting(c)) =>
        /\ \A o \in bucket \ bucket' : startsWith(o.Key, c.args.key \o <<"/">>)
        /\ bucket' \subseteq bucket
        /\ (c.phase = "first" /\ Under(bucket, c.args.key \o <<"/">>) = {}) =>
             /\ \A d \in s3Calls' \ s3Calls : d.phase # "second"
             /\ (Finishing(c) /\ s3Last'.ok) =>
                  /\ s3Last'.result = "true"
                  /\ Len(s3Last'.sent) = 1
                  /\ s3Last'.sent[1].cmd = "ListObjectsV2"
                  /\ bucket' = bucket
    ]_vars

\* C12 witness: deleteFolder('a') has returned, the objects 'a', 'ab/a' and
\* 'b' next to the folder are still there and the folder is empty
C12_Witness ==
  /\ s3Last.op = "deleteFolder" /\ s3Last.ok /\ Len(s3Last.sent) = 2
  /\ KeysOf(bucket) = {<<"a">>, <<"a", "b", "/", "a">>, <<"b">>}

\* C13: createFolder fails with an error whose message contains 'Folder
\* already exists', and writes nothing, when an object's key starts with the
\* folder key; otherwise it sends one upload of an empty object with that key
\* and, when the upload succeeds, returns true with the object in the bucket.
C13_CreateFolder ==
  [][ \A c \in s3Calls : (c.op = "createFolder" /\ Acting(c)) =>
        LET folderKey == joinKey(c.args.path, c.args.name) \o <<"/">> IN
        /\ (c.phase = "first" /\ Under(bucket, folderKey) # {}) =>
             /\ bucket' = bucket
             /\ \A d \in s3Calls' \ s3Calls : d.phase # "second"
             /\ Finishing(c) =>
                  /\ ~s3Last'.ok
                  /\ ~s3Last'.rejected =>
                       MessageHas(s3Last'.message, "Folder already exists")
        /\ (Finishing(c) /\ s3Last'.ok) =>
             /\ s3Last'.result = "true"
             /\ Len(s3Last'.sent) = 2
             /\ s3Last'.sent[2].cmd = "Upload" /\ s3Last'.sent[2].key = folderKey
             /\ bucket' = {o \in bucket : o.Key # folderKey} \cup
                             {Obj(folderKey, 0, Now)}
    ]_vars

----------------------------------------------------------------------------
(* The share dialog: ShareFileContent                                      *)

\* the <option> values of the expiry select, in hours
ExpiryOptions == {1, 24, 168, 720}

\* the files a share dialog is opened for
ShareFiles == {<<"b">>, <<"A">>, <<"a", "/", "b">>}

\* expiresIn * 3600 // convert to seconds
expirySeconds_Minutes(hours) == hours * 60

expirySeconds(hours) == hours * 3600

\* s3Service.generateShareUrl(key, expiresInSeconds): a URL that grants read
\* access to the object for that many seconds
generateShareUrl(key, expiresInSeconds) ==
  [object |-> key, expires |-> expiresInSeconds]

\* everything but the share dialog
outsideShare ==
  <<configVars, browserVars, s3Vars, panelVars, uploadVars, messageVars>>

\* generateShareUrl of the component, up to its await
generateShareUrlCall(file, hours) ==
  /\ shareStatus' = [file |-> file, loading |-> TRUE, error |-> "none"]
  /\ shareReqs' = shareReqs \cup {[key |-> file, seconds |-> expirySeconds(hours)]}

\* the select, the URL and the buttons are rendered only when the component
\* shows neither the Loading nor the Error screen
ShareInteractive ==
  shareStatus.file # <<>> /\ ~shareStatus.loading /\ shareStatus.error = "none"

\* handleShare: the modal mounts ShareFileContent, whose effect generates a URL
handleShare ==
  /\ shareStatus.file = <<>>
  /\ \E file \in ShareFiles : generateShareUrlCall(file, expiresIn)
  /\ UNCHANGED <<shareUrl, expiresIn>>
  /\ UNCHANGED outsideShare

\* the modal is closed: the component unmounts, and answers that arrive later
\* set no state
closeShareModal ==
  /\ shareStatus.file # <<>>
  /\ shareUrl' = <<>>
  /\ shareStatus' = [file |-> <<>>, loading |-> TRUE, error |-> "none"]
  /\ expiresIn' = 24
  /\ shareReqs' = {}
  /\ UNCHANGED outsideShare

\* onChange of the select: setExpiresIn, and the effect on expiresIn
setExpiresIn ==
  /\ ShareInteractive
  /\ \E hours \in ExpiryOptions :
       /\ hours # expiresIn
       /\ expiresIn' = hours
       /\ generateShareUrlCall(shareStatus.file, hours)
  /\ UNCHANGED shareUrl
  /\ UNCHANGED outsideShare

\* the Regenerate button, and Retry on the Error screen
regenerate ==
  /\ shareStatus.file # <<>> /\ ~shareStatus.loading
  /\ generateShareUrlCall(shareStatus.file, expiresIn)
  /\ UNCHANGED <<shareUrl, expiresIn>>
  /\ UNCHANGED outsideShare

\* generateShareUrl of the component after its await
generateShareUrlDone ==
  \E r \in shareReqs, ok \in BOOLEAN :
    /\ shareReqs' = shareReqs \ {r}
    /\ IF ok
       THEN /\ shareUrl' = generateShareUrl(r.key, r.seconds)
            /\ shareStatus' = [shareStatus EXCEPT !.loading = FALSE]
       ELSE /\ shareStatus' = [shareStatus EXCEPT !.loading = FALSE,
                                                  !.error = "Failed to generate share URL"]
            /\ UNCHANGED shareUrl
    /\ UNCHANGED expiresIn
    /\ UNCHANGED outsideShare

InitShare ==
  /\ ConfigAtRest /\ InitBrowser /\ bucket = BrowserObjects
  /\ S3AtRest /\ PanelAtRest /\ ShareAtRest /\ UploaderAtRest /\ MessageAtRest

NextShare ==
  \/ handleShare
  \/ closeShareModal
  \/ setExpiresIn
  \/ regenerate
  \/ generateShareUrlDone

SpecShare == InitShare /\ [][NextShare]_vars

\* C14: every share URL is requested with an expiry of the selected hours
\* times 3600 seconds, and when no request is outstanding the URL on display
\* is the one generated for the file and the expiry now selected.
C14_ShareUrlForSelectedExpiry ==
  [][ /\ \A r \in shareReqs' \ shareReqs : r.seconds = expiresIn' * 3600
      /\ (ShareInteractive' /\ shareReqs' = {}) =>
           shareUrl' = [object |-> shareStatus'.file, expires |-> expiresIn' * 3600]
    ]_vars

\* C14 witness: the expiry was changed to 7 days and then to 1 hour, and the
\* URL on display expires after 3600 seconds
C14_Witness ==
  /\ ShareInteractive /\ shareReqs = {}
  /\ expiresIn = 1
  /\ shareUrl.expires = 3600

----------------------------------------------------------------------------
(* S3Service and the active configuration                                  *)

\* a configuration with credentials of its own
CfgWith(id, bk, key, act) ==
  [Cfg(id, bk, act) EXCEPT !.accessKey = key, !.secretKey = key]

\* the stored lists the client specification starts from: a second
\* configuration active, or one configuration that is not active
ClientLists ==
  {<<CfgWith(1, <<"b">>, <<"b">>, FALSE), CfgWith(2, <<"c">>, <<"c">>, TRUE)>>,
   <<CfgWith(1, <<"b">>, <<"b">>, FALSE)>>}

\* the BucketConfigService calls in flight when it starts
ClientPending == {[op |-> "setActive", id |-> 1], [op |-> "delete", id |-> 2]}

\* one call of each S3Service operation
ClientInputs ==
  {[op |-> "listFiles",    args |-> NoArgs],
   [op |-> "searchFiles",  args |-> NoArgs],
   [op |-> "uploadFile",   args |-> Args(<<>>, <<"b">>, <<>>, 1)],
   [op |-> "downloadFile", args |-> Args(<<"b">>, <<>>, <<>>, 0)],
   [op |-> "deleteFile",   args |-> Args(<<"b">>, <<>>, <<>>, 0)],
   [op |-> "deleteFolder", args |-> Args(<<"a">>, <<>>, <<>>, 0)],
   [op |-> "createFolder", args |-> Args(<<>>, <<"a">>, <<>>, 0)]}

callOperation == s3Call(ClientInputs)

InitClient ==
  /\ stored \in {Stringify(l) : l \in ClientLists}
  /\ configs = loadFromLocalStorage(bucketConfigsData, stored)
  /\ pending = ClientPending
  /\ last = NoCall
  /\ saveState = [status |-> "none"]
  /\ InitBrowser /\ bucket = BrowserObjects
  /\ S3AtRest /\ PanelAtRest /\ ShareAtRest /\ UploaderAtRest /\ MessageAtRest

NextClient ==
  \/ callOperation
  \/ initializeClient
  \/ s3Response
  \/ s3SecondResponse
  \/ setActive
  \/ delete

SpecClient == InitClient /\ [][NextClient]_vars

\* the first request of a call, when this step sends it
FirstRequests == {c.sent[1] : c \in {d \in s3Calls' \ s3Calls : d.phase = "first"}}

\* C15: the request an operation sends when it is called, or right after its
\* client was initialised, names the bucket and carries the credentials of
\* the configuration that is active in BucketConfigService at that moment.
C15_RequestsUseActiveConfig ==
  [][ \A r \in FirstRequests :
        LET active == getActive(configs) IN
        /\ active # Null
        /\ r.Bucket = active.bucketName
        /\ r.client = S3Client(active)
    ]_vars

\* C16: with no client set, an operation whose initializeClient finds no
\* active configuration fails with a message containing 'No active S3
\* configuration found', has sent no request and leaves the client unset;
\* one that finds an active configuration sets the client from it.
C16_NoActiveConfiguration ==
  [][ \A c \in s3Calls : (c.phase = "init" /\ Acting(c) /\ s3Client = Null) =>
        LET active == getActive(configs) IN
        IF active = Null
        THEN /\ Finishing(c)
             /\ ~s3Last'.ok
             /\ s3Last'.sent = <<>>
             /\ s3Client' = Null
             /\ MessageHas(s3Last'.message, "No active S3 configuration found")
        ELSE /\ s3Client' = S3Client(active)
             /\ bucketName' = active.bucketName
    ]_vars

----------------------------------------------------------------------------
(* The listing on display and the current path                             *)

\* C17: once every listing request has completed and no delete is under way,
\* the files on display are the listing of the current path: status.path is
\* the path whose listing loadFiles stored into files last
C17_FilesOfCurrentPath ==
  (Interactive /\ listReqs = {} /\ handlers = {}) =>
    /\ status.path = currentPath
    /\ \A i \in DOMAIN files : startsWith(files[i].key, listPrefix(currentPath))

----------------------------------------------------------------------------
(* Opening folders and the breadcrumbs, over buckets whose keys have empty *)
(* segments as well                                                        *)

OpenObjects ==
  {Obj(<<"b">>, 1, 3),
   Obj(<<"/", "b">>, 1, 1),
   Obj(<<"a", "/", "b">>, 1, 4),
   Obj(<<"a", "/", "/", "b">>, 2, 2),
   Obj(<<"a", "/", "c", "/", "b">>, 2, 1)}

InitOpen ==
  /\ ConfigAtRest /\ InitBrowser /\ bucket \in SUBSET OpenObjects
  /\ S3AtRest /\ PanelAtRest /\ ShareAtRest /\ UploaderAtRest /\ MessageAtRest

NextOpen ==
  \/ handleFileClick
  \/ breadcrumbClick
  \/ loadFilesDone

SpecOpen == InitOpen /\ [][NextOpen]_vars

\* the positions of the '/' characters of a path, in order
SlashAt(path, k) ==
  CHOOSE i \in DOMAIN path :
    /\ path[i] = "/"
    /\ Cardinality({j \in 1..(i - 1) : path[j] = "/"}) = k - 1

\* every folder entry of the listing on display opens the common prefix it
\* was built from
OpensItsFolder ==
  (Interactive /\ status.loaded) =>
    LET response == ListObjectsV2(bucket, listPrefix(status.path), <<"/">>)
    IN \A i \in DOMAIN response.CommonPrefixes :
         LET f == FolderEntry(response.CommonPrefixes[i])
         IN /\ \E k \in DOMAIN files : files[k] = f
            /\ listPrefix(f.key) = response.CommonPrefixes[i].Prefix

\* one crumb per segment of the current path, crumb i leading to the first i
\* segments, the last one to the current path itself
CrumbsOfPath ==
  LET crumbs == getBreadcrumbs(currentPath)
      n      == Cardinality({j \in DOMAIN currentPath : currentPath[j] = "/"}) + 1
  IN IF currentPath = <<>> THEN crumbs = <<>>
     ELSE /\ Len(crumbs) = n
          /\ \A i \in 1..(n - 1) :
               crumbs[i].path = SubSeq(currentPath, 1, SlashAt(currentPath, i) - 1)
          /\ crumbs[n].path = currentPath

\* C18: listFiles(f.key) lists with the common prefix the folder entry f was
\* built from, and getBreadcrumbs returns one crumb per segment of the current
\* path, crumb i with the path of the first i segments (none for the empty path)
C18_OpenFolderAndBreadcrumbs == OpensItsFolder /\ CrumbsOfPath

----------------------------------------------------------------------------
(* S3Manager and the ConfigurationPanel's list.  A handler of the panel    *)
(* awaits one call of BucketConfigService; the body of the call and the    *)
(* handler's continuation run together when the call's delay has elapsed.  *)

MaxPanelCalls == 1      \* handlers of the panel running at once

outsidePanel ==
  <<pending, saveState, browserVars, s3Vars, shareVars, uploadVars, messageVars>>

\* the object the panel hands to onConfigSaved
Serializable(c) ==
  [Id |-> c.Id, name |-> c.name, bucketName |-> c.bucketName,
   region |-> c.region, isActive |-> c.isActive]

\* getAll: a copy of every stored configuration
getAll(list) == [i \in DOMAIN list |-> makeSerializable(list[i])]

\* the panel shows its list and buttons once loadConfigs has finished
PanelInteractive ==
  \A c \in panelCalls : c.op \notin {"loadActiveConfig", "loadConfigs"}

\* S3Manager renders the panel alone while activeConfig is null, and the main
\* application (opening on the browser tab) otherwise: the panel is unmounted
\* when activeConfig becomes non-null, and loads anew when the configuration
\* tab is opened
Remount ==
  /\ panelConfigs' = <<>>
  /\ panelActiveConfig' = Null
  /\ panelCalls' = {[op |-> "loadConfigs"]}

\* S3Manager.loadActiveConfig, run at mount; the panel is mounted after it
loadActiveConfig ==
  \E c \in panelCalls :
    /\ c.op = "loadActiveConfig"
    /\ managerActiveConfig' = getActive(configs)
    /\ panelCalls' = {[op |-> "loadConfigs"]}
    /\ UNCHANGED <<panelConfigs, panelActiveConfig>>
    /\ UNCHANGED <<configs, stored, last>>
    /\ UNCHANGED outsidePanel

\* ConfigurationPanel.loadConfigs after Promise.all([getAll(), getActive()])
loadConfigs ==
  \E c \in panelCalls :
    /\ c.op = "loadConfigs"
    /\ panelConfigs' = getAll(configs)
    /\ panelActiveConfig' = getActive(configs)
    /\ panelCalls' = panelCalls \ {c}
    /\ UNCHANGED managerActiveConfig
    /\ UNCHANGED <<configs, stored, last>>
    /\ UNCHANGED outsidePanel

\* S3Manager.handleConfigSaved, called by the panel as onConfigSaved: what the
\* handler leaves in the panel (list, activeConfig) is shown unless the
\* panel is unmounted by the change
onConfigSaved(config, c, list, active) ==
  /\ managerActiveConfig' = config
  /\ IF managerActiveConfig = Null THEN Remount
     ELSE /\ panelConfigs' = list
          /\ panelActiveConfig' = active
          /\ panelCalls' = panelCalls \ {c}

\* handleSaveConfig of the panel revisions that call create, up to the await
handleSaveConfigCall ==
  /\ PanelInteractive
  /\ Cardinality(panelCalls) < MaxPanelCalls
  /\ Len(configs) < MaxConfigs
  /\ NextId(configs) <= MaxId
  /\ \E formData \in Forms :
       /\ validateForm(formData)
       /\ panelCalls' = panelCalls \cup {[op |-> "create", data |-> formData]}
  /\ UNCHANGED <<panelConfigs, panelActiveConfig, managerActiveConfig>>
  /\ UNCHANGED <<configs, stored, last>>
  /\ UNCHANGED outsidePanel

\* create, then setConfigs(prev => [...prev, savedConfig]),
\* setActiveConfig(savedConfig) and onConfigSaved
handleSaveConfigDone ==
  \E c \in panelCalls, setItemOk \in BOOLEAN :
    /\ c.op = "create"
    /\ configs' = createList(configs, c.data)
    /\ stored' = saveToLocalStorage(configs', stored, setItemOk)
    /\ LET savedConfig == makeSerializable(configs'[Len(configs')]) IN
       /\ last' = Done(c, TRUE, savedConfig, setItemOk)
       /\ onConfigSaved(Serializable(savedConfig), c,
                        panelConfigs \o <<savedConfig>>, savedConfig)
    /\ UNCHANGED outsidePanel

\* the Set Active button of a row that is not marked active
handleSetActiveCall ==
  /\ PanelInteractive
  /\ Cardinality(panelCalls) < MaxPanelCalls
  /\ \E i \in DOMAIN panelConfigs :
       /\ ~panelConfigs[i].isActive
       /\ panelCalls' = panelCalls \cup
            {[op |-> "setActive", id |-> panelConfigs[i].Id]}
  /\ UNCHANGED <<panelConfigs, panelActiveConfig, managerActiveConfig>>
  /\ UNCHANGED <<configs, stored, last>>
  /\ UNCHANGED outsidePanel

\* setActive, then setActiveConfig(updatedConfig),
\* setConfigs(prev => prev.map(c => ({...c, isActive: c.Id === configId})))
\* and onConfigSaved
handleSetActiveDone ==
  \E c \in panelCalls, setItemOk \in BOOLEAN :
    /\ c.op = "setActive"
    /\ LET index == findIndex(configs, c.id) IN
       IF index = 0
       THEN /\ NotFound(c)
            /\ panelCalls' = panelCalls \ {c}
            /\ UNCHANGED <<panelConfigs, panelActiveConfig, managerActiveConfig>>
       ELSE /\ configs' = setActiveList(configs, index)
            /\ stored' = saveToLocalStorage(configs', stored, setItemOk)
            /\ LET updatedConfig == makeSerializable(configs'[index]) IN
               /\ last' = Done(c, TRUE, updatedConfig, setItemOk)
               /\ onConfigSaved(Serializable(updatedConfig), c,
                    [i \in DOMAIN panelConfigs |->
                       [panelConfigs[i] EXCEPT !.isActive = (panelConfigs[i].Id = c.id)]],
                    updatedConfig)
    /\ UNCHANGED outsidePanel

\* the Delete button of a row, confirmed; activeConfig is the one of the
\* render the button was clicked in
handleDeleteConfigCall ==
  /\ PanelInteractive
  /\ Cardinality(panelCalls) < MaxPanelCalls
  /\ \E i \in DOMAIN panelConfigs, accept \in BOOLEAN :
       /\ confirmed(accept)
       /\ panelCalls' = panelCalls \cup
            {[op |-> "delete", id |-> panelConfigs[i].Id,
              activeConfig |-> panelActiveConfig]}
  /\ UNCHANGED <<panelConfigs, panelActiveConfig, managerActiveConfig>>
  /\ UNCHANGED <<configs, stored, last>>
  /\ UNCHANGED outsidePanel

\* delete, then setConfigs(prev => prev.filter(c => c.Id !== configId)) and
\* setActiveConfig(null) if the deleted one was the panel's activeConfig;
\* onConfigSaved is not called
handleDeleteConfigDone ==
  \E c \in panelCalls, setItemOk \in BOOLEAN :
    /\ c.op = "delete"
    /\ panelCalls' = panelCalls \ {c}
    /\ LET index == findIndex(configs, c.id) IN
       IF index = 0
       THEN /\ NotFound(c)
            /\ UNCHANGED <<panelConfigs, panelActiveConfig>>
       ELSE /\ configs' = deleteList(configs, index)
            /\ stored' = saveToLocalStorage(configs', stored, setItemOk)
            /\ last' = Done(c, TRUE, TRUE, setItemOk)
            /\ panelConfigs' = SelectSeq(panelConfigs, LAMBDA x : x.Id # c.id)
            /\ panelActiveConfig' =
                 IF c.activeConfig # Null /\ c.activeConfig.Id = c.id
                 THEN Null ELSE panelActiveConfig
    /\ UNCHANGED managerActiveConfig
    /\ UNCHANGED outsidePanel

\* S3Manager mounts with the service as a page load leaves it
InitManager ==
  /\ InitConfig /\ BrowserAtRest /\ S3AtRest /\ ShareAtRest /\ UploaderAtRest /\ MessageAtRest
  /\ panelConfigs = <<>>
  /\ panelActiveConfig = Null
  /\ managerActiveConfig = Null
  /\ panelCalls = {[op |-> "loadActiveConfig"]}

\* the panel revisions whose handleSaveConfig calls create
NextPanelList ==
  \/ loadActiveConfig
  \/ loadConfigs
  \/ handleSaveConfigCall
  \/ handleSaveConfigDone
  \/ handleSetActiveCall
  \/ handleSetActiveDone
  \/ handleDeleteConfigCall
  \/ handleDeleteConfigDone

SpecPanelList == InitManager /\ [][NextPanelList]_vars

\* the panel revision whose handleSaveConfig calls save
NextManager ==
  \/ loadActiveConfig
  \/ loadConfigs
  \/ handleSaveConfig
  \/ handleSetActiveCall
  \/ handleSetActiveDone
  \/ handleDeleteConfigCall
  \/ handleDeleteConfigDone

SpecManager == InitManager /\ [][NextManager]_vars

\* the rows of the panel's list that carry the Active badge
MarkedActive == {i \in DOMAIN panelConfigs : panelConfigs[i].isActive}

\* C19: once the panel's actions have completed, at most one row of its list
\* is marked active, and that row is the configuration active in the service
C19_PanelListOneActive ==
  panelCalls = {} =>
    /\ Cardinality(MarkedActive) <= 1
    /\ \A i \in MarkedActive :
         /\ getActive(configs) # Null
         /\ getActive(configs).Id = panelConfigs[i].Id

\* C20: once the panel's actions have completed, S3Manager's activeConfig is
\* non-null exactly when the service has an active configuration, and names
\* that configuration's bucket
C20_ManagerActiveConfig ==
  panelCalls = {} =>
    /\ (managerActiveConfig # Null) <=> (getActive(configs) # Null)
    /\ managerActiveConfig # Null =>
         managerActiveConfig.bucketName = getActive(configs).bucketName

----------------------------------------------------------------------------
(* BucketConfigService called with an id no configuration has              *)

\* a caller invokes getById
InvokeGetById ==
  /\ Cardinality(pending) < MaxPending
  /\ \E i \in 1..MaxId : pending' = pending \cup {[op |-> "getById", id |-> i]}
  /\ UNCHANGED <<configs, stored, last, saveState>>
  /\ UNCHANGED outsideConfig

\* getById after its delay: this.configs.find(c => c.Id === parseInt(id))
getById ==
  \E c \in pending :
    /\ c.op = "getById"
    /\ pending' = pending \ {c}
    /\ LET index == findIndex(configs, c.id) IN
       IF index = 0 THEN NotFound(c)
       ELSE /\ last' = Done(c, TRUE, makeSerializable(configs[index]), FALSE)
            /\ UNCHANGED <<configs, stored>>
    /\ UNCHANGED saveState
    /\ UNCHANGED outsideConfig

NextLookup ==
  \/ InvokeGetById
  \/ getById
  \/ NextConfig

SpecLookup == InitService /\ [][NextLookup]_vars

\* the call c is the one that completes in this step
Completing(c) ==
  /\ c \in pending /\ pending' = pending \ {c}
  /\ last'.op = c.op /\ last'.id = c.id

\* C21: getById, update, delete and setActive called with an id that no
\* configuration has throw 'Configuration not found' and change neither the
\* configuration list nor the stored item
C21_NotFound ==
  [][ \A c \in pending :
        (/\ c.op \in {"getById", "update", "delete", "setActive"}
         /\ Completing(c)
         /\ c.id \notin Ids(configs)) =>
          /\ ~last'.ok
          /\ last'.result = "Configuration not found"
          /\ configs' = configs
          /\ stored' = stored
    ]_vars

\* C21 witness: a delete with an id no configuration of a non-empty list has
\* was rejected
C21_Witness ==
  /\ last.op = "delete" /\ ~last.ok
  /\ configs # <<>> /\ last.id \notin Ids(configs)

----------------------------------------------------------------------------
(* FileUploader: upload tasks, the isUploading flag and the cleanup timer. *)
(* A batch is one call of handleFileUpload; its uploads settle one by one, *)
(* and when the last one has settled (Promise.all) the handler sets the    *)
(* timer and clears isUploading.  The timer's callback ends by calling     *)
(* onUploadComplete, S3Manager.handleUploadComplete, whose                 *)
(* loadActiveConfig puts S3Manager on its spinner: the FileUploader is     *)
(* unmounted and mounted anew, while calls and timers of the old one go    *)
(* on without a component to update.                                       *)

MaxTasks   == 3      \* task ids in use: tasks in the list and uploads in flight
MaxBatches == 2      \* batches with uploads in flight or a timer to fire

outsideUploader ==
  <<configVars, s3Vars, panelConfigs, panelActiveConfig, panelCalls, shareVars,
    messageVars, currentPath, files, filteredFiles, selectedFiles, view, status, listReqs,
    handlers, shown>>

File(name, size) == [name |-> name, size |-> size]

\* the files of one drop or one selection
UploadBatches ==
  {<<File(<<"a">>, 1)>>, <<File(<<"b">>, 2)>>,
   <<File(<<"a">>, 1), File(<<"b">>, 2)>>}

\* Math.round(progress) of the progress events of the model
ProgressValues == {50}

TaskIds == {uploadTasks[i].id : i \in DOMAIN uploadTasks}

\* ids in use, in the list or by a call in flight
UsedIds == TaskIds \cup {u.task : u \in uploads}

UsedBatches == {u.batch : u \in uploads} \cup {t.batch : t \in timers}

\* Math.random().toString(36).substr(2, 9): ids that are not in use
RECURSIVE freshIds(_, _)
freshIds(n, used) ==
  IF n = 0 THEN <<>>
  ELSE LET id == CHOOSE i \in 1..MaxTasks : i \notin used
       IN <<id>> \o freshIds(n - 1, used \cup {id})

NewTask(id, file) ==
  [id |-> id, file |-> file, progress |-> 0, status |-> "uploading",
   error |-> "none"]

\* prev.map(t => t.id === taskId ? change(t) : t)
MapTask(list, taskId, change(_)) ==
  [i \in DOMAIN list |-> IF list[i].id = taskId THEN change(list[i]) ELSE list[i]]

settled_KeepsProgress(t, ok) ==
  IF ok THEN [t EXCEPT !.status = "completed"]
  ELSE [t EXCEPT !.status = "error", !.error = "Error is not a constructor"]

\* the task after its upload call has settled
settled(t, ok) ==
  IF ok THEN [t EXCEPT !.status = "completed", !.progress = 100]
  ELSE [t EXCEPT !.status = "error", !.error = "Error is not a constructor"]

\* the timer callback's prev.filter(task => task.status === 'error')
cleanupKeeps(t) == t.status = "error"

\* handleDrop / handleFileSelect: handleFileUpload up to Promise.all
handleFileUpload ==
  /\ uploaderMounted
  /\ Cardinality(UsedBatches \ {0}) < MaxBatches
  /\ \E batchFiles \in UploadBatches :
       /\ Cardinality(UsedIds) + Len(batchFiles) <= MaxTasks
       /\ LET ids   == freshIds(Len(batchFiles), UsedIds)
              batch == CHOOSE b \in 1..MaxBatches : b \notin UsedBatches
          IN /\ uploadTasks' = uploadTasks \o
                    [k \in DOMAIN batchFiles |-> NewTask(ids[k], batchFiles[k])]
             /\ uploads' = uploads \cup
                    {[task |-> ids[k], batch |-> batch, live |-> TRUE,
                      file |-> batchFiles[k]] : k \in DOMAIN batchFiles}
  /\ isUploading' = TRUE
  /\ UNCHANGED <<managerActiveConfig, timers, uploaderMounted, bucket>>
  /\ UNCHANGED outsideUploader

\* the progress callback of an upload in flight
uploadProgress ==
  \E u \in uploads, p \in ProgressValues :
    /\ u.live
    /\ u.task \in TaskIds
    /\ LET change(t) == [t EXCEPT !.progress = p]
       IN uploadTasks' = MapTask(uploadTasks, u.task, change)
    /\ UNCHANGED <<managerActiveConfig, isUploading, uploads, timers,
                   uploaderMounted, bucket>>
    /\ UNCHANGED outsideUploader

\* an uploadFile call settles.  The last call of a batch to settle lets
\* handleFileUpload go on after Promise.all: it sets the cleanup timer and
\* clears isUploading
uploadDone ==
  \E u \in uploads, ok \in BOOLEAN :
    LET rest      == uploads \ {u}
        batchDone == u.batch # 0 /\ \A v \in rest : v.batch # u.batch
        change(t) == settled(t, ok)
    IN
    /\ uploads' = rest
    /\ bucket' = IF ok
                 THEN putObject(bucket, joinKey(currentPath, u.file.name),
                                u.file.size)
                 ELSE bucket
    /\ uploadTasks' = IF u.live THEN MapTask(uploadTasks, u.task, change)
                      ELSE uploadTasks
    /\ timers' = IF batchDone
                 THEN timers \cup {[batch |-> u.batch, live |-> u.live]}
                 ELSE timers
    /\ isUploading' = IF batchDone /\ u.live THEN FALSE ELSE isUploading
    /\ UNCHANGED <<managerActiveConfig, uploaderMounted>>
    /\ UNCHANGED outsideUploader

\* the Retry button of a task whose status is error
retryTask ==
  /\ uploaderMounted
  /\ \E i \in DOMAIN uploadTasks :
       /\ uploadTasks[i].status = "error"
       /\ LET change(t) == [t EXCEPT !.status = "uploading", !.progress = 0,
                                     !.error = "none"]
          IN uploadTasks' = MapTask(uploadTasks, uploadTasks[i].id, change)
       /\ uploads' = uploads \cup
            {[task |-> uploadTasks[i].id, batch |-> 0, live |-> TRUE,
              file |-> uploadTasks[i].file]}
  /\ UNCHANGED <<managerActiveConfig, isUploading, timers, uploaderMounted, bucket>>
  /\ UNCHANGED outsideUploader

\* the X button of a task whose status is error
removeTask ==
  /\ uploaderMounted
  /\ \E i \in DOMAIN uploadTasks :
       /\ uploadTasks[i].status = "error"
       /\ uploadTasks' = SelectSeq(uploadTasks,
                                   LAMBDA t : t.id # uploadTasks[i].id)
  /\ UNCHANGED <<managerActiveConfig, isUploading, uploads, timers,
                 uploaderMounted, bucket>>
  /\ UNCHANGED outsideUploader

\* a cleanup timer fires: the list is filtered, and onUploadComplete makes
\* S3Manager load the active configuration behind its spinner
cleanup ==
  \E t \in timers :
    /\ timers' = {[x EXCEPT !.live = FALSE] : x \in timers \ {t}}
    /\ uploads' = {[u EXCEPT !.live = FALSE] : u \in uploads}
    /\ uploadTasks' = IF t.live THEN SelectSeq(uploadTasks, cleanupKeeps)
                      ELSE uploadTasks
    /\ uploaderMounted' = FALSE
    /\ UNCHANGED <<managerActiveConfig, isUploading, bucket>>
    /\ UNCHANGED outsideUploader

\* S3Manager.loadActiveConfig has finished: the FileUploader is mounted anew
mountUploader ==
  /\ ~uploaderMounted
  /\ uploaderMounted' = TRUE
  /\ uploadTasks' = <<>>
  /\ isUploading' = FALSE
  /\ managerActiveConfig' = getActive(configs)
  /\ UNCHANGED <<uploads, timers, bucket>>
  /\ UNCHANGED outsideUploader

\* S3Manager has loaded the active configuration and shows the upload tab
InitUploader ==
  /\ ConfigAtRest /\ BrowserAtRest /\ S3AtRest /\ ShareAtRest /\ UploaderAtRest /\ MessageAtRest
  /\ panelConfigs = <<>>
  /\ panelActiveConfig = Null
  /\ managerActiveConfig = getActive(configs)
  /\ panelCalls = {}

NextUploader ==
  \/ handleFileUpload
  \/ uploadProgress
  \/ uploadDone
  \/ retryTask
  \/ removeTask
  \/ cleanup
  \/ mountUploader

SpecUploader == InitUploader /\ [][NextUploader]_vars

----------------------------------------------------------------------------
(* Claims about the FileUploader                                           *)

TaskStatuses == {"uploading", "completed", "error"}

\* the task of the list that has this id
TaskOf(id) ==
  uploadTasks[CHOOSE i \in DOMAIN uploadTasks : uploadTasks[i].id = id]

\* an upload call of the task settles in this step
SettlesNow(id) == \E u \in uploads : u.task = id /\ u \notin uploads'

\* retryTask starts an upload of the task in this step
RetriedNow(id) == \E u \in uploads' \ uploads : u.task = id /\ u.batch = 0

\* C22: a task is created as uploading with progress 0; it becomes completed
\* (progress 100) or error (with a message) only when its upload call
\* settles; it leaves error only for uploading, through retryTask; and a
\* completed task keeps its status
C22_TaskLifecycle ==
  [][ \A i \in DOMAIN uploadTasks' :
        LET t == uploadTasks'[i] IN
        /\ t.status \in TaskStatuses
        /\ IF t.id \notin TaskIds
           THEN t.status = "uploading" /\ t.progress = 0
           ELSE LET o == TaskOf(t.id) IN
                /\ (o.status = "uploading" /\ t.status = "completed") =>
                     (t.progress = 100 /\ SettlesNow(t.id))
                /\ (o.status = "uploading" /\ t.status = "error") =>
                     (t.error # "none" /\ SettlesNow(t.id))
                /\ (o.status = "error" /\ t.status # "error") =>
                     (t.status = "uploading" /\ RetriedNow(t.id))
                /\ o.status = "completed" => t.status = "completed"
    ]_vars

\* C22 witness: one task has completed and another, which had failed, is
\* being uploaded again by retryTask
C22_Witness ==
  /\ \E i \in DOMAIN uploadTasks :
       uploadTasks[i].status = "completed" /\ uploadTasks[i].progress = 100
  /\ \E i \in DOMAIN uploadTasks :
       /\ uploadTasks[i].status = "uploading"
       /\ \E u \in uploads : u.task = uploadTasks[i].id /\ u.batch = 0 /\ u.live

\* C23: the cleanup timer removes only completed tasks: tasks with status
\* error stay, and so do tasks that are uploading when it fires
C23_CleanupRemovesCompletedOnly ==
  [][ (\E t \in timers : t.live /\ t \notin timers') =>
        \A i \in DOMAIN uploadTasks :
          uploadTasks[i].status # "completed" =>
            \E k \in DOMAIN uploadTasks' : uploadTasks'[k] = uploadTasks[i]
    ]_vars

\* C24: isUploading is true whenever a task of the list is uploading, and
\* false once no upload of the component is in progress
C24_IsUploading ==
  uploaderMounted =>
    /\ (\E i \in DOMAIN uploadTasks : uploadTasks[i].status = "uploading")
          => isUploading
    /\ (\A u \in uploads : ~u.live) => ~isUploading

-----------------------------------------------------------------------------
\* safeSerialize and safePostMessage (src/src/App.jsx)
\*
\* A message is a value: a primitive, undefined, a function, or a reference
\* to an object of the heap.  An object of the heap has a kind (a plain
\* object, an array, a Map) and the values it holds.  What safeSerialize
\* builds is new: a tree of records, whose leaves are values.

MaxNodes == 2
MaxItems == 2

Value(t, v, n, items) == [t |-> t, v |-> v, n |-> n, items |-> items]
Prim(v) == Value("prim", v, 0, <<>>)
Undefined == Value("undefined", "", 0, <<>>)
Function == Value("function", "", 0, <<>>)
Ref(n) == Value("ref", "", n, <<>>)
\* a new plain object or array made by the serializer
Plain(t, type, items) == Value(t, type, 0, items)

Nodes == 1..MaxNodes
NodeKinds == {"object", "array", "Map"}
ItemValues == {Prim("x"), Function} \cup {Ref(n) : n \in Nodes}
ItemSeqs == UNION {[1..k -> ItemValues] : k \in 0..MaxItems}
Heaps == [Nodes -> [kind : NodeKinds, items : ItemSeqs]]
DataValues == ItemValues \cup {Undefined}
TargetWindows == {"null", "noPostMessage", "window", "closed"}

RECURSIVE safeSerialize(_, _, _, _)
RECURSIVE serializeItems(_, _, _, _)
\* safeSerialize(data, visited): the result, the visited set afterwards and
\* the number of calls made so far
safeSerialize(h, data, visited, calls) ==
  IF data.t # "ref"
  THEN [result |-> data, visited |-> visited, calls |-> calls + 1]
  ELSE IF data.n \in visited
  THEN [result |-> Prim("[Circular Reference]"), visited |-> visited,
        calls |-> calls + 1]
  ELSE
    LET node == h[data.n]
        seen == visited \cup {data.n}
        each == serializeItems(h, node.items, seen, calls + 1)
    IN  IF node.kind = "Map"
        THEN [result |-> Plain("object", "Map",
                               <<Plain("array", "", node.items)>>),
              visited |-> seen, calls |-> calls + 1]
        ELSE [result |-> Plain(node.kind, "", each.results),
              visited |-> each.visited, calls |-> each.calls]

\* data.map(item => safeSerialize(item, visited)), and the for-in loop
serializeItems(h, items, visited, calls) ==
  IF items = <<>>
  THEN [results |-> <<>>, visited |-> visited, calls |-> calls]
  ELSE LET first == safeSerialize(h, Head(items), visited, calls)
           rest  == serializeItems(h, Tail(items), first.visited, first.calls)
       IN  [results |-> <<first.result>> \o rest.results,
            visited |-> rest.visited, calls |-> rest.calls]

\* the objects the values of a sequence refer to
RefsOf(values) == {v.n : v \in {w \in values : w.t = "ref"}}
Refs(items) == RefsOf({items[i] : i \in DOMAIN items})

\* the values found in a tree the serializer built, its own records excluded
RECURSIVE Leaves(_)
Leaves(r) ==
  IF r.t \in {"object", "array"}
  THEN UNION {Leaves(r.items[i]) : i \in DOMAIN r.items}
  ELSE {r}

\* the objects reached from those of S through objects of the given kinds
RECURSIVE Closure(_, _, _)
Closure(h, S, kinds) ==
  LET walked == {m \in S : h[m].kind \in kinds}
      next == S \cup UNION {Refs(h[n].items) : n \in walked}
  IN  IF next = S THEN S ELSE Closure(h, next, kinds)

\* JSON.stringify walks objects and arrays, writes a Map as {} and leaves a
\* function out: it throws on a cycle, and gives undefined (which JSON.parse
\* rejects) for undefined and for a function
JSONWalks == {"object", "array"}
JSONThrows(h, r) ==
  \/ r.t \in {"undefined", "function"}
  \/ \E n \in Closure(h, RefsOf(Leaves(r)), JSONWalks) :
       /\ h[n].kind \in JSONWalks
       /\ n \in Closure(h, Refs(h[n].items), JSONWalks)

\* the structured clone of postMessage copies cycles and Maps, and throws a
\* DataCloneError on a function
Cloneable(h, r) ==
  /\ Function \notin Leaves(r)
  /\ \A n \in Closure(h, RefsOf(Leaves(r)), NodeKinds) :
       \A i \in DOMAIN h[n].items : h[n].items[i] # Function

\* !targetWindow || !targetWindow.postMessage
available_Always(targetWindow) == TRUE
available(targetWindow) == targetWindow \notin {"null", "noPostMessage"}

\* targetWindow.postMessage(message, targetOrigin) returns
postMessage(h, targetWindow, message) ==
  targetWindow = "window" /\ Cloneable(h, message)

typeof(data) ==
  CASE data.t = "ref" -> "object"
    [] data.t = "prim" -> "string"
    [] OTHER -> data.t

fallbackData(data) ==
  Plain("object", "FallbackMessage",
        <<Prim(typeof(data)),
          Prim("Serialization failed"), Prim("timestamp")>>)

\* safePostMessage(targetWindow, data): what it returns, whether it threw,
\* the messages it handed to postMessage and those that were posted
safePostMessage(h, targetWindow, data) ==
  IF ~available(targetWindow)
  THEN [returned |-> FALSE, threw |-> FALSE, attempted |-> <<>>,
        posted |-> <<>>]
  ELSE
    LET serializedData == safeSerialize(h, data, {}, 0).result
        fallback == fallbackData(data)
        sent == IF postMessage(h, targetWindow, fallback)
                THEN <<fallback>> ELSE <<>>
    IN  IF JSONThrows(h, serializedData)
        THEN [returned |-> FALSE, threw |-> FALSE,
              attempted |-> <<fallback>>, posted |-> sent]
        ELSE IF ~postMessage(h, targetWindow, serializedData)
        THEN [returned |-> FALSE, threw |-> FALSE,
              attempted |-> <<serializedData, fallback>>, posted |-> sent]
        ELSE [returned |-> TRUE, threw |-> FALSE,
              attempted |-> <<serializedData>>,
              posted |-> <<serializedData>>]

outsideMessage ==
  <<configVars, browserVars, s3Vars, panelVars, shareVars, uploadVars>>

\* safeSerialize(data) is called
safeSerializeCall ==
  /\ ~serLast.done
  /\ LET out == safeSerialize(heap, postInput.data, {}, 0)
     IN  serLast' = [done |-> TRUE, result |-> out.result, calls |-> out.calls]
  /\ UNCHANGED <<heap, postInput, postLast, outsideMessage>>

\* safePostMessage(targetWindow, data) is called
safePostMessageCall ==
  /\ ~postLast.done
  /\ LET out == safePostMessage(heap, postInput.targetWindow, postInput.data)
     IN  postLast' = [done |-> TRUE, returned |-> out.returned,
                      threw |-> out.threw, attempted |-> out.attempted,
                      posted |-> out.posted]
  /\ UNCHANGED <<heap, postInput, serLast, outsideMessage>>

InitMessage ==
  /\ ConfigAtRest /\ BrowserAtRest /\ S3AtRest /\ PanelAtRest /\ ShareAtRest
  /\ UploaderAtRest
  /\ heap \in Heaps
  /\ postInput \in [data : DataValues, targetWindow : TargetWindows]
  /\ serLast = [done |-> FALSE]
  /\ postLast = [done |-> FALSE]

NextMessage == safeSerializeCall \/ safePostMessageCall

SpecMessage == InitMessage /\ [][NextMessage]_vars

-----------------------------------------------------------------------------
\* Claims about safePostMessage and safeSerialize

IsFallback(m) == m.t = "object" /\ m.v = "FallbackMessage"

\* the serialized form of the data of the call
SerializedForm == safeSerialize(heap, postInput.data, {}, 0).result

\* C25: safePostMessage never throws; it returns true exactly when the
\* serialized form of the data was posted; when the serialization, the JSON
\* check or the post fails it attempts one message of type FallbackMessage
\* and returns false; when the target window is missing or has no
\* postMessage it posts nothing and returns false
C25_SafePostMessage ==
  postLast.done =>
    /\ ~postLast.threw
    /\ postLast.returned <=> postLast.posted = <<SerializedForm>>
    /\ (available(postInput.targetWindow) /\ ~postLast.returned) =>
         /\ Cardinality({i \in DOMAIN postLast.attempted :
                           IsFallback(postLast.attempted[i])}) = 1
         /\ IsFallback(postLast.attempted[Len(postLast.attempted)])
    /\ postInput.targetWindow \in {"null", "noPostMessage"} =>
         /\ postLast.attempted = <<>>
         /\ postLast.posted = <<>>
         /\ ~postLast.returned

\* C25 witness: the post of the serialized form threw on a function held by
\* the data, the fallback message was posted instead, and false came back
C25_Witness ==
  /\ postLast.done
  /\ ~postLast.returned
  /\ Len(postLast.attempted) = 2
  /\ postLast.attempted[1] = SerializedForm
  /\ Len(postLast.posted) = 1
  /\ IsFallback(postLast.posted[1])

\* a tree of plain objects, arrays and primitives: no function, and no
\* reference to an object of the caller, through which a cycle could come
RECURSIVE IsPlainTree(_)
IsPlainTree(r) ==
  CASE r.t \in {"prim", "undefined"} -> TRUE
    [] r.t \in {"object", "array"} ->
         \A i \in DOMAIN r.items : IsPlainTree(r.items[i])
    [] OTHER -> FALSE

RECURSIVE SumLen(_, _)
SumLen(h, S) ==
  IF S = {} THEN 0
  ELSE LET n == CHOOSE m \in S : TRUE
       IN  Len(h[n].items) + SumLen(h, S \ {n})

\* C26: safeSerialize terminates on every finite object graph, cycles
\* included (it is called at most once for the data and once for each value
\* an object holds), and its result is a tree of plain objects, arrays and
\* primitives without a reference cycle
C26_SafeSerializeTree ==
  serLast.done =>
    /\ serLast.calls <= 1 + SumLen(heap, Nodes)
    /\ IsPlainTree(serLast.result)

\* the termination half of C26 on its own
SerializeCallsBounded ==
  serLast.done => serLast.calls <= 1 + SumLen(heap, Nodes)
====
